---- MODULE Spec2Model ----
\* ElectricSheep: the dual memory (working store + encrypted deep store) of
\* memory.py and the dream cycle of dreamer.py, as a state machine.
\*
\* Text is modelled as a sequence of one-character strings, so that strip,
\* upper, startswith, split and slicing are computed as Python computes them.
\* Time is an integer instant; a stored timestamp is that instant, and
\* IsoFormat is its text where the text is what matters (the rendered context).
EXTENDS Integers, Sequences, FiniteSets, TLC

\* ------------------------------------------------------------------ bounds

\* Deep records appended in one behaviour.
MaxDeep == 2
\* Last instant of the clock.
MaxTime == 2
\* Instants per calendar day (the date of an instant is instant \div DayLength).
DayLength == 2
\* Entries the working store already holds when the behaviour starts.
Preloaded == 49
\* Working-memory observations ("feed was empty") appended in one behaviour.
MaxObservations == 1
\* Dream cycles started in one behaviour.
MaxCycles == 2
\* Stored ciphertexts damaged in one behaviour.
MaxTamper == 1
\* Deep records appended in one behaviour of the wall-clock specification.
MaxListed == 3
\* remember() calls in one behaviour of the waking specification.
MaxRemembered == 2
MaxLines == 4
MaxKeyCalls == 4
MaxGenerated == 2
MaxActions == 3
MaxRaced == 3

\* ------------------------------------------------------- program constants

WORKING_MEMORY_MAX_ENTRIES == 50

\* get_working_memory_context(max_tokens_approx = 2000)
DefaultMaxTokens == 2000

\* ------------------------------------------------------------ text helpers

Min(a, b) == IF a <= b THEN a ELSE b

\* s[-n:] for n >= 1
LastN(s, n) == IF Len(s) <= n THEN s ELSE SubSeq(s, Len(s) - n + 1, Len(s))

\* s[:n]
FirstN(s, n) == SubSeq(s, 1, Min(n, Len(s)))

Whitespace == {" ", "\n", "\t"}

RECURSIVE LStripChars(_, _)
LStripChars(s, chars) ==
    IF s # <<>> /\ Head(s) \in chars THEN LStripChars(Tail(s), chars) ELSE s

RECURSIVE RStripChars(_, _)
RStripChars(s, chars) ==
    IF s # <<>> /\ s[Len(s)] \in chars
    THEN RStripChars(SubSeq(s, 1, Len(s) - 1), chars)
    ELSE s

\* str.strip()
Strip(s) == RStripChars(LStripChars(s, Whitespace), Whitespace)

Lower == <<"c", "o", "n", "s", "l", "i", "d", "a", "t">>
Upper == <<"C", "O", "N", "S", "L", "I", "D", "A", "T">>

UpperChar(c) ==
    IF \E i \in 1..Len(Lower) : Lower[i] = c
    THEN Upper[CHOOSE i \in 1..Len(Lower) : Lower[i] = c]
    ELSE c

\* str.upper()
ToUpper(s) == [i \in 1..Len(s) |-> UpperChar(s[i])]

\* str.startswith(prefix)
StartsWith(s, prefix) ==
    Len(s) >= Len(prefix) /\ SubSeq(s, 1, Len(prefix)) = prefix

\* s.split(sep, 1)[1], for s that contains sep
AfterFirst(s, sep) ==
    LET i == CHOOSE k \in 1..Len(s) :
                 s[k] = sep /\ \A j \in 1..(k - 1) : s[j] # sep
    IN SubSeq(s, i + 1, Len(s))

\* str.replace(a, b) for one-character a and b
Replace(s, a, b) == [i \in 1..Len(s) |-> IF s[i] = a THEN b ELSE s[i]]


RECURSIVE Split(_, _)
\* str.split(sep): the pieces between the separators, at least one piece
Split(s, sep) ==
    IF \E k \in 1..Len(s) : s[k] = sep
    THEN LET i == CHOOSE k \in 1..Len(s) :
                      s[k] = sep /\ \A j \in 1..(k - 1) : s[j] # sep
         IN <<SubSeq(s, 1, i - 1)>> \o Split(SubSeq(s, i + 1, Len(s)), sep)
    ELSE <<s>>

RECURSIVE Join(_, _)
\* sep.join(pieces)
Join(pieces, sep) ==
    IF pieces = <<>> THEN <<>>
    ELSE IF Len(pieces) = 1 THEN pieces[1]
    ELSE pieces[1] \o <<sep>> \o Join(Tail(pieces), sep)

Range(s) == {s[i] : i \in DOMAIN s}

\* An optional value: NULL / a missing key, or one value.
NULL == <<>>
Some(v) == <<v>>

\* ------------------------------------------------------------------- state

VARIABLES
    DREAM_ENCRYPTION_KEY, \* config.py: the configured key, "" when unset
    keyFile,              \* data/.dream_key: NULL or Some(key)
    generated,            \* how many keys Fernet.generate_key() has produced
    keyLog,               \* history: the direct calls of get_or_create_dream_key
                          \* since the configuration or the key file last
                          \* changed from outside
    deep,                 \* the deep_memories table, in rowid order
    working,              \* working.json: the list of entries
    dreamsDir,            \* data/dreams: file name -> file content
    stateFile,            \* state.json
    now,                  \* the wall clock
    pc,                   \* where run_dream_cycle stands
    memories,             \* run_dream_cycle: the records it collected
    dream,                \* run_dream_cycle: the parsed dream
    outcome,              \* how the last run_dream_cycle ended
    cycleStart,           \* history: the stores when the current/last cycle began
    inserted,             \* history: every entry ever given to store_working_memory
    observations,         \* history: count of empty-feed observations
    tampered,             \* history: count of ciphertexts damaged on disk
    cycles,               \* history: count of dream cycles started
    appended,             \* history: every (content, category) given to store_deep_memory
    obtained,             \* history: the keys get_cipher has handed to each process
    remembering,          \* remember(): NULL, or what is still to go to deep memory
    recalled,             \* the last call of a function that only reads:
                          \* get_working_memory, get_working_memory_context,
                          \* the parse in generate_dream
    executing,            \* execute_actions: its list, its position, its log
    loaded                \* store_working_memory: the list each process has
                          \* loaded and not yet saved

vars == <<DREAM_ENCRYPTION_KEY, keyFile, generated, keyLog, deep, working,
          dreamsDir, stateFile,
          now, pc, memories, dream, outcome, cycleStart, inserted,
          observations, tampered, cycles, appended, obtained, remembering,
          recalled, executing, loaded>>

\* ---------------------------------------------------------- key management

\* Fernet.generate_key() draws 32 random bytes: a generated key differs from
\* every key generated before, and from the configured and the installed ones.
GeneratedKeys == <<"k1", "k2", "k3", "k4">>

FreshKeys == {GeneratedKeys[generated + 1]}

\* Faulty variant: the generated key is returned without being written to
\* the key file.
get_or_create_dream_key_NotPersisted(cfg, kf) ==
    IF cfg # ""
    THEN {[key |-> cfg, keyFile |-> kf, generated |-> generated]}
    ELSE IF kf # NULL
         THEN {[key |-> kf[1], keyFile |-> kf, generated |-> generated]}
         ELSE {[key |-> k, keyFile |-> kf, generated |-> generated + 1] :
                  k \in FreshKeys}

\* get_or_create_dream_key: the possible results [key, keyFile after the
\* call, keys generated after the call]
get_or_create_dream_key(cfg, kf) ==
    IF cfg # ""
    THEN {[key |-> cfg, keyFile |-> kf, generated |-> generated]}
    ELSE IF kf # NULL
         THEN {[key |-> kf[1], keyFile |-> kf, generated |-> generated]}
         ELSE {[key |-> k, keyFile |-> Some(k), generated |-> generated + 1] :
                  k \in FreshKeys}

\* Fernet: authenticated symmetric encryption
Encrypt(key, raw) == [key |-> key, raw |-> raw, intact |-> TRUE]

DecryptOk(key, blob) == blob.key = key /\ blob.intact

Decrypt(key, blob) == blob.raw

\* Python values, [py |-> type, v |-> payload]: a dict is the sequence of its
\* <<key, value>> items, the keys being str as in every dict the program
\* builds; a list or a tuple is the sequence of its elements.
PyStr(s) == [py |-> "str", v |-> s]

PyInt(n) == [py |-> "int", v |-> n]

PyList(xs) == [py |-> "list", v |-> xs]

PyDict(items) == [py |-> "dict", v |-> items]

RECURSIVE JsonDumps(_)
\* json.dumps(content, default=str).encode(): the JSON text, as its syntax
\* tree. A tuple is written as an array like a list; a value of any other
\* type is written as the string str(value).
JsonDumps(content) ==
    CASE content.py = "str" -> [json |-> "string", v |-> content.v]
      [] content.py = "int" -> [json |-> "number", v |-> content.v]
      [] content.py \in {"list", "tuple"} ->
            [json |-> "array",
             v |-> [i \in 1..Len(content.v) |-> JsonDumps(content.v[i])]]
      [] content.py = "dict" ->
            [json |-> "object",
             v |-> [i \in 1..Len(content.v) |->
                      <<content.v[i][1], JsonDumps(content.v[i][2])>>]]
      [] OTHER -> [json |-> "string", v |-> <<"str", content.py, content.v>>]

RECURSIVE JsonLoads_ArraysAsTuples(_)
\* Faulty variant: an array is read back as a tuple.
JsonLoads_ArraysAsTuples(raw) ==
    CASE raw.json = "string" -> [py |-> "str", v |-> raw.v]
      [] raw.json = "number" -> [py |-> "int", v |-> raw.v]
      [] raw.json = "array" ->
            [py |-> "tuple",
             v |-> [i \in 1..Len(raw.v) |-> JsonLoads_ArraysAsTuples(raw.v[i])]]
      [] raw.json = "object" ->
            [py |-> "dict",
             v |-> [i \in 1..Len(raw.v) |->
                      <<raw.v[i][1], JsonLoads_ArraysAsTuples(raw.v[i][2])>>]]

RECURSIVE JsonLoads(_)
\* json.loads: a string is a str, a number an int, an array a list, an
\* object a dict
JsonLoads(raw) ==
    CASE raw.json = "string" -> [py |-> "str", v |-> raw.v]
      [] raw.json = "number" -> [py |-> "int", v |-> raw.v]
      [] raw.json = "array" ->
            [py |-> "list",
             v |-> [i \in 1..Len(raw.v) |-> JsonLoads(raw.v[i])]]
      [] raw.json = "object" ->
            [py |-> "dict",
             v |-> [i \in 1..Len(raw.v) |->
                      <<raw.v[i][1], JsonLoads(raw.v[i][2])>>]]

\* hashlib.sha256(raw).hexdigest()[:16]
ContentHash(raw) == <<"sha256", raw>>

\* ---------------------------------------------------------------- deep store

store_deep_memory(db, key, content, category, t) ==
    LET raw == JsonDumps(content)
    IN Append(db, [id            |-> Len(db) + 1,
                   timestamp     |-> t,
                   category      |-> category,
                   encrypted_blob |-> Encrypt(key, raw),
                   content_hash  |-> ContentHash(raw),
                   dreamed       |-> 0,
                   dream_date    |-> NULL])

RECURSIVE InsertByTimestamp_BeforeEquals(_, _)
\* Faulty variant: a row goes in front of the rows with an equal timestamp.
InsertByTimestamp_BeforeEquals(sorted, row) ==
    IF sorted = <<>> THEN <<row>>
    ELSE IF row.timestamp <= Head(sorted).timestamp
         THEN <<row>> \o sorted
         ELSE <<Head(sorted)>> \o InsertByTimestamp_BeforeEquals(Tail(sorted), row)

RECURSIVE InsertByTimestamp(_, _)
InsertByTimestamp(sorted, row) ==
    IF sorted = <<>> THEN <<row>>
    ELSE IF row.timestamp < Head(sorted).timestamp
         THEN <<row>> \o sorted
         ELSE <<Head(sorted)>> \o InsertByTimestamp(Tail(sorted), row)

RECURSIVE OrderByTimestamp(_)
\* ORDER BY timestamp over rows given in rowid order (the index
\* idx_deep_dreamed(dreamed, timestamp) yields equal timestamps in rowid order)
OrderByTimestamp(rows) ==
    IF rows = <<>> THEN <<>>
    ELSE InsertByTimestamp(OrderByTimestamp(SubSeq(rows, 1, Len(rows) - 1)),
                           rows[Len(rows)])

CorruptedNote ==
    PyDict(<< <<"note", PyStr("This memory could not be recovered.")>> >>)

\* Faulty variant: the except branch forgets the "corrupted" tag.
DecryptRow_KeepsCategory(key, row) ==
    IF DecryptOk(key, row.encrypted_blob)
    THEN [id |-> row.id, timestamp |-> row.timestamp,
          category |-> row.category,
          content |-> JsonLoads(Decrypt(key, row.encrypted_blob))]
    ELSE [id |-> row.id, timestamp |-> row.timestamp,
          category |-> row.category,
          content |-> CorruptedNote]

\* One row of retrieve_undreamed_memories' loop: the try and the except branch
DecryptRow(key, row) ==
    IF DecryptOk(key, row.encrypted_blob)
    THEN [id |-> row.id, timestamp |-> row.timestamp,
          category |-> row.category,
          content |-> JsonLoads(Decrypt(key, row.encrypted_blob))]
    ELSE [id |-> row.id, timestamp |-> row.timestamp,
          category |-> "corrupted",
          content |-> CorruptedNote]

\* Faulty variant: the query has no WHERE dreamed = 0.
retrieve_undreamed_memories_NoFilter(db, key) ==
    LET rows == OrderByTimestamp(db)
    IN [i \in 1..Len(rows) |-> DecryptRow(key, rows[i])]

\* Faulty variant: a row that cannot be decrypted is left out of the result.
retrieve_undreamed_memories_SkipsCorrupted(db, key) ==
    LET rows == OrderByTimestamp(SelectSeq(db,
                    LAMBDA r : r.dreamed = 0 /\ DecryptOk(key, r.encrypted_blob)))
    IN [i \in 1..Len(rows) |-> DecryptRow(key, rows[i])]

retrieve_undreamed_memories(db, key) ==
    LET rows == OrderByTimestamp(SelectSeq(db, LAMBDA r : r.dreamed = 0))
    IN [i \in 1..Len(rows) |-> DecryptRow(key, rows[i])]

\* Faulty variant: the UPDATE also clears the flag of every other record.
mark_as_dreamed_ClearsOthers(db, memory_ids, t) ==
    IF memory_ids = <<>> THEN db
    ELSE [i \in 1..Len(db) |->
            IF db[i].id \in Range(memory_ids)
            THEN [db[i] EXCEPT !.dreamed = 1, !.dream_date = Some(t)]
            ELSE [db[i] EXCEPT !.dreamed = 0]]

\* Faulty variant: the UPDATE sets the flag and leaves dream_date alone.
mark_as_dreamed_NoDate(db, memory_ids, t) ==
    IF memory_ids = <<>> THEN db
    ELSE [i \in 1..Len(db) |->
            IF db[i].id \in Range(memory_ids)
            THEN [db[i] EXCEPT !.dreamed = 1]
            ELSE db[i]]

\* Faulty variant: the UPDATE also overwrites the record's timestamp.
mark_as_dreamed_Restamps(db, memory_ids, t) ==
    IF memory_ids = <<>> THEN db
    ELSE [i \in 1..Len(db) |->
            IF db[i].id \in Range(memory_ids)
            THEN [db[i] EXCEPT !.dreamed = 1, !.dream_date = Some(t),
                               !.timestamp = t]
            ELSE db[i]]

mark_as_dreamed(db, memory_ids, t) ==
    IF memory_ids = <<>> THEN db
    ELSE [i \in 1..Len(db) |->
            IF db[i].id \in Range(memory_ids)
            THEN [db[i] EXCEPT !.dreamed = 1, !.dream_date = Some(t)]
            ELSE db[i]]


\* Faulty variant: the GROUP BY query counts the undreamed records only.
deep_memory_stats_GroupsUndreamed(db) ==
    LET total     == Len(db)
        undreamed == Cardinality({i \in 1..Len(db) : db[i].dreamed = 0})
        cats      == {db[i].category : i \in 1..Len(db)}
    IN [total_memories |-> total,
        undreamed      |-> undreamed,
        dreamed        |-> total - undreamed,
        categories     |-> [c \in cats |->
                              Cardinality({i \in 1..Len(db) :
                                  db[i].category = c /\ db[i].dreamed = 0})]]

deep_memory_stats(db) ==
    LET total     == Len(db)
        undreamed == Cardinality({i \in 1..Len(db) : db[i].dreamed = 0})
        cats      == {db[i].category : i \in 1..Len(db)}
    IN [total_memories |-> total,
        undreamed      |-> undreamed,
        dreamed        |-> total - undreamed,
        categories     |-> [c \in cats |->
                              Cardinality({i \in 1..Len(db) : db[i].category = c})]]

\* ------------------------------------------------------------- working store

\* Faulty variant: the prune keeps the oldest entries (memories[:MAX]).
store_working_memory_KeepsOldest(wm, summary, category, t) ==
    LET entry == [timestamp |-> t, category |-> category, summary |-> summary]
        grown == Append(wm, entry)
    IN IF Len(grown) > WORKING_MEMORY_MAX_ENTRIES
       THEN FirstN(grown, WORKING_MEMORY_MAX_ENTRIES)
       ELSE grown

store_working_memory(wm, summary, category, t) ==
    LET entry == [timestamp |-> t, category |-> category, summary |-> summary]
        grown == Append(wm, entry)
    IN IF Len(grown) > WORKING_MEMORY_MAX_ENTRIES
       THEN LastN(grown, WORKING_MEMORY_MAX_ENTRIES)
       ELSE grown

DreamInsightPrefix ==
    <<"[", "D", "R", "E", "A", "M", " ", "I", "N", "S", "I", "G", "H", "T", "]", " ">>

\* Faulty variant: the insight is filed as an ordinary observation.
consolidate_dream_insight_AsObservation(wm, insight, t) ==
    store_working_memory(wm, DreamInsightPrefix \o insight, "observation", t)

consolidate_dream_insight(wm, insight, t) ==
    store_working_memory(wm, DreamInsightPrefix \o insight, "dream_consolidation", t)

\* get_working_memory(limit, category); a parameter is NULL (None) or
\* Some(value). "if category:" and "if limit:" are truth tests: an empty
\* category and a limit of 0 count as not given. memories[-limit:] keeps the
\* last limit entries for a positive limit and drops the first -limit for a
\* negative one. (The filtered list, memories in the source, is matching.)
get_working_memory(wm, limit, category) ==
    LET matching == IF category # NULL /\ category[1] # ""
                    THEN SelectSeq(wm, LAMBDA m : m.category = category[1])
                    ELSE wm
    IN IF limit # NULL /\ limit[1] # 0
       THEN IF limit[1] > 0
            THEN LastN(matching, limit[1])
            ELSE SubSeq(matching, Min(0 - limit[1], Len(matching)) + 1,
                        Len(matching))
       ELSE matching

Digits == <<"0", "1", "2", "3", "4", "5", "6", "7", "8", "9">>

RECURSIVE Decimal(_)
\* str(n) for n >= 0
Decimal(n) ==
    IF n < 10 THEN <<Digits[n + 1]>>
    ELSE Decimal(n \div 10) \o <<Digits[(n % 10) + 1]>>

\* datetime.isoformat() of an instant: the instants of a behaviour are the
\* minutes of one hour, instant t being minute t + WORKING_MEMORY_MAX_ENTRIES.
IsoFormat(t) ==
    <<"2", "0", "2", "6", "-", "0", "1", "-", "0", "1", "T", "0", "0", ":",
      Digits[((t + WORKING_MEMORY_MAX_ENTRIES) \div 10) + 1],
      Digits[((t + WORKING_MEMORY_MAX_ENTRIES) % 10) + 1],
      ":", "0", "0", "+", "0", "0", ":", "0", "0">>

\* The characters of a category name.
CategoryText ==
    [observation |->
        <<"o", "b", "s", "e", "r", "v", "a", "t", "i", "o", "n">>,
     upvote |->
        <<"u", "p", "v", "o", "t", "e">>,
     comment |->
        <<"c", "o", "m", "m", "e", "n", "t">>,
     feed_scan |->
        <<"f", "e", "e", "d", "_", "s", "c", "a", "n">>,
     dream_consolidation |->
        <<"d", "r", "e", "a", "m", "_", "c", "o", "n", "s", "o", "l",
          "i", "d", "a", "t", "i", "o", "n">>]

\* f"[{mem['timestamp'][:16]}] ({mem['category']}) {mem['summary']}"
ContextLine(mem) ==
    <<"[">> \o FirstN(IsoFormat(mem.timestamp), 16) \o <<"]", " ", "(">>
    \o CategoryText[mem.category] \o <<")", " ">> \o mem.summary

OmittedPrefix == <<".", ".", ".", " ", "(">>

OmittedSuffix ==
    <<" ", "o", "l", "d", "e", "r", " ", "m", "e", "m", "o", "r",
      "i", "e", "s", " ", "o", "m", "i", "t", "t", "e", "d", ")">>

\* f"... ({n} older memories omitted)"
OmittedLine(n) == OmittedPrefix \o Decimal(n) \o OmittedSuffix

RECURSIVE ContextLoop_CountsShown(_, _, _, _, _)
\* Faulty variant: the omitted line counts the entries shown.
ContextLoop_CountsShown(mems, i, lines, char_count, char_budget) ==
    IF i = 0 THEN lines
    ELSE IF char_count + Len(ContextLine(mems[i])) > char_budget
         THEN <<OmittedLine(Len(lines))>> \o lines
         ELSE ContextLoop_CountsShown(
                  mems, i - 1, <<ContextLine(mems[i])>> \o lines,
                  char_count + Len(ContextLine(mems[i])), char_budget)

RECURSIVE ContextLoop_ChecksAfterAdding(_, _, _, _, _)
\* Faulty variant: the budget is compared with the total before the line,
\* so the line that crosses the budget is still shown.
ContextLoop_ChecksAfterAdding(mems, i, lines, char_count, char_budget) ==
    IF i = 0 THEN lines
    ELSE IF char_count > char_budget
         THEN <<OmittedLine(Len(mems) - Len(lines))>> \o lines
         ELSE ContextLoop_ChecksAfterAdding(
                  mems, i - 1, <<ContextLine(mems[i])>> \o lines,
                  char_count + Len(ContextLine(mems[i])), char_budget)

RECURSIVE ContextLoop(_, _, _, _, _)
\* the loop over reversed(memories), at the entry of index i
ContextLoop(mems, i, lines, char_count, char_budget) ==
    IF i = 0 THEN lines
    ELSE IF char_count + Len(ContextLine(mems[i])) > char_budget
         THEN <<OmittedLine(Len(mems) - Len(lines))>> \o lines
         ELSE ContextLoop(mems, i - 1, <<ContextLine(mems[i])>> \o lines,
                          char_count + Len(ContextLine(mems[i])), char_budget)

FirstDay ==
    <<"N", "o", " ", "m", "e", "m", "o", "r", "i", "e", "s", " ",
      "y", "e", "t", ".", " ", "T", "h", "i", "s", " ", "i", "s",
      " ", "m", "y", " ", "f", "i", "r", "s", "t", " ", "d", "a",
      "y", ".">>

get_working_memory_context(wm, max_tokens_approx) ==
    IF wm = <<>> THEN FirstDay
    ELSE Join(ContextLoop(wm, Len(wm), <<>>, 0, max_tokens_approx * 4), "\n")

\* ------------------------------------------------------------------ dreamer

ConsolidationMarker ==
    <<"C", "O", "N", "S", "O", "L", "I", "D", "A", "T", "I", "O", "N", ":">>

IsConsolidationLine(line) == StartsWith(ToUpper(Strip(line)), ConsolidationMarker)

RECURSIVE LastConsolidation(_, _)
\* the loop of generate_dream over lines[1:]: the last matching line wins
LastConsolidation(lines, sofar) ==
    IF lines = <<>> THEN sofar
    ELSE LastConsolidation(
             Tail(lines),
             IF IsConsolidationLine(Head(lines))
             THEN Strip(AfterFirst(Strip(Head(lines)), ":"))
             ELSE sofar)

\* Faulty variant: the consolidation lines stay in the narrative.
ParseDream_KeepsConsolidationLines(response) ==
    LET text  == Strip(response)
        lines == Split(text, "\n")
        rest  == Tail(lines)
    IN [title         |-> Strip(LStripChars(Strip(lines[1]), {"#", " "})),
        narrative     |-> Strip(Join(rest, "\n")),
        consolidation |-> LastConsolidation(rest, <<>>)]

\* generate_dream, from the response text on (lines 68-89)
ParseDream(response) ==
    LET text  == Strip(response)
        lines == Split(text, "\n")
        rest  == Tail(lines)
    IN [title         |-> Strip(LStripChars(Strip(lines[1]), {"#", " "})),
        narrative     |-> Strip(Join(SelectSeq(rest,
                                 LAMBDA l : ~IsConsolidationLine(l)), "\n")),
        consolidation |-> LastConsolidation(rest, <<>>)]

\* What the generation collaborator may answer.
Responses ==
    { <<"T", "\n", "a", "\n">> \o ConsolidationMarker \o <<" ", "i">>,
      <<"#", " ", "U", "\n", "b">> }

\* strftime("%Y-%m-%d") of an instant
DateOf(t) == t \div DayLength

\* save_dream_locally: the file name and the file content
DreamFileName(d, date_str) ==
    <<date_str, Replace(Replace(FirstN(d.title, 40), " ", "_"), "/", "_")>>

DreamFileContent(d, date_str) ==
    [title |-> d.title, dreamed |-> date_str, narrative |-> d.narrative,
     consolidation |-> d.consolidation]

save_dream_locally(dir, d, date_str) ==
    LET name == DreamFileName(d, date_str)
    IN [n \in DOMAIN dir \cup {name} |->
           IF n = name THEN DreamFileContent(d, date_str) ELSE dir[n]]

\* ------------------------------------------------------------------- state.py

\* load_state() of a missing file is {}: every key missing
EmptyState ==
    [last_dream |-> NULL, dream_count |-> NULL, total_dreams |-> NULL,
     latest_dream_title |-> NULL]

Get(opt, default) == IF opt = NULL THEN default ELSE opt[1]

\* Faulty variant: the dreamless night resets total_dreams instead of dream_count.
DreamlessState_ResetsTotal(st, t) ==
    [st EXCEPT !.last_dream = Some(t), !.total_dreams = Some(0)]

\* run_dream_cycle line 132: the dreamless night
DreamlessState(st, t) ==
    [st EXCEPT !.last_dream = Some(t), !.dream_count = Some(0)]

\* Faulty variant: the completed cycle writes total_dreams back unchanged.
DreamedState_NoIncrement(st, d, t) ==
    [st EXCEPT !.last_dream = Some(t),
               !.total_dreams = Some(Get(st.total_dreams, 0)),
               !.latest_dream_title = Some(d.title)]

\* run_dream_cycle lines 163-167
DreamedState(st, d, t) ==
    [st EXCEPT !.last_dream = Some(t),
               !.total_dreams = Some(Get(st.total_dreams, 0) + 1),
               !.latest_dream_title = Some(d.title)]


\* ------------------------------------------------------------- initial state

\* The working store of an agent that has already run for a while: n entries,
\* oldest first, written before the clock of this behaviour starts.
Prefilled(n) ==
    [i \in 1..n |-> [timestamp |-> i - n, category |-> "observation",
                     summary |-> <<"o">>]]

NoDream == [title |-> <<>>, narrative |-> <<>>, consolidation |-> <<>>]

\* What a cycle finds when it starts: the dreamed flags and dream dates, the
\* number of working-memory insertions so far, the archive and the state file.
Snapshot ==
    [dreamed |-> [i \in 1..Len(deep) |-> deep[i].dreamed],
     dream_date |-> [i \in 1..Len(deep) |-> deep[i].dream_date],
     inserted |-> Len(inserted),
     dreamsDir |-> dreamsDir, stateFile |-> stateFile]

NoSnapshot ==
    [dreamed |-> <<>>, dream_date |-> <<>>, inserted |-> 0,
     dreamsDir |-> <<>>, stateFile |-> EmptyState]

\* No get_working_memory / get_working_memory_context call has been made.
NoCall == [call |-> "none"]

NotExecuting ==
    [pc |-> "none", actions |-> <<>>, i |-> 0, log |-> <<>>,
     start |-> [inserted |-> 0, deep |-> 0]]

NotLoaded == [waking |-> NULL, dreaming |-> NULL]

Init ==
    /\ DREAM_ENCRYPTION_KEY = ""
    /\ keyFile = NULL
    /\ generated = 0
    /\ keyLog = <<>>
    /\ deep = <<>>
    /\ working = Prefilled(Preloaded)
    /\ inserted = working
    /\ dreamsDir = <<>>
    /\ stateFile = EmptyState
    /\ now = 1
    /\ pc = "idle"
    /\ memories = <<>>
    /\ dream = NoDream
    /\ outcome = "none"
    /\ cycleStart = NoSnapshot
    /\ observations = 0
    /\ tampered = 0
    /\ cycles = 0
    /\ appended = <<>>
    /\ obtained = [waking |-> {}, dreaming |-> {}]
    /\ remembering = NULL
    /\ recalled = NoCall
    /\ executing = NotExecuting
    /\ loaded = NotLoaded

\* ------------------------------------------------------------------- waking

\* What summarize_interaction may answer.
Summaries == {<<"s">>}

\* The categories execute_actions remembers under.
ActionCategories == {"upvote", "comment"}

Posts == {"p1"}

\* A post of the feed, as resp.json() returned it.
Post(id) == PyDict(<< <<"id", PyStr(id)>> >>)

\* execute_actions: the full_context of an action on a post
ActionContext(category, post) ==
    PyDict(<< <<"type", PyStr(category)>>, <<"post", Post(post)>> >>)

\* check_and_engage: the record of a feed check
FeedCheck(post) ==
    PyDict(<< <<"type", PyStr("feed_check")>>,
              <<"post_count", PyInt(1)>>,
              <<"posts", PyList(<<Post(post)>>)>> >>)

ObservationSummary ==
    <<"C", "h", "e", "c", "k", "e", "d", " ", "M", "o", "l", "t", "b", "o",
    "o", "k", " ", "b", "u", "t", " ", "f", "e", "e", "d", " ", "w", "a", "s",
    " ", "e", "m", "p", "t", "y", ".", " ", "Q", "u", "i", "e", "t", " ", "d",
    "a", "y", ".">>

\* The clock advances.
Tick ==
    /\ now < MaxTime
    /\ now' = now + 1
    /\ UNCHANGED <<executing, loaded, DREAM_ENCRYPTION_KEY, keyFile,
                   generated, keyLog, deep, working, dreamsDir, stateFile,
                   pc, memories, dream, outcome, cycleStart, inserted,
                   observations, tampered, cycles, appended, obtained,
                   remembering, recalled>>

\* remember(summary, full_context, category): both writes succeed
Remember ==
    /\ remembering = NULL
    /\ Len(deep) < MaxDeep
    /\ \E summary \in Summaries, category \in ActionCategories, post \in Posts,
          r \in get_or_create_dream_key(DREAM_ENCRYPTION_KEY, keyFile) :
          /\ working' = store_working_memory(working, summary, category, now)
          /\ inserted' = Append(inserted, [timestamp |-> now, category |-> category,
                                           summary |-> summary])
          /\ keyFile' = r.keyFile
          /\ generated' = r.generated
          /\ keyLog' = keyLog
          /\ obtained' = [obtained EXCEPT !.waking = @ \cup {r.key}]
          /\ appended' = Append(appended, [content |-> ActionContext(category, post),
                                            category |-> category])
          /\ deep' = store_deep_memory(deep, r.key, ActionContext(category, post),
                                       category, now)
    /\ UNCHANGED <<executing, loaded, DREAM_ENCRYPTION_KEY, dreamsDir,
                   stateFile, now, pc, memories, dream, outcome, cycleStart,
                   observations, tampered, cycles, remembering, recalled>>

\* check_and_engage lines 254-259: the feed check goes to deep memory only
FeedScan ==
    /\ remembering = NULL
    /\ Len(deep) < MaxDeep
    /\ \E post \in Posts,
          r \in get_or_create_dream_key(DREAM_ENCRYPTION_KEY, keyFile) :
          /\ keyFile' = r.keyFile
          /\ generated' = r.generated
          /\ keyLog' = keyLog
          /\ obtained' = [obtained EXCEPT !.waking = @ \cup {r.key}]
          /\ appended' = Append(appended, [content |-> FeedCheck(post),
                                            category |-> "feed_scan"])
          /\ deep' = store_deep_memory(deep, r.key,
                                       FeedCheck(post),
                                       "feed_scan", now)
    /\ UNCHANGED <<executing, loaded, DREAM_ENCRYPTION_KEY, working,
                   dreamsDir, stateFile, now, pc, memories, dream, outcome,
                   cycleStart, inserted, observations, tampered, cycles,
                   remembering, recalled>>

\* check_and_engage lines 249-252: an empty feed goes to working memory only
EmptyFeed ==
    /\ remembering = NULL
    /\ observations < MaxObservations
    /\ observations' = observations + 1
    /\ working' = store_working_memory(working, ObservationSummary, "observation", now)
    /\ inserted' = Append(inserted, [timestamp |-> now, category |-> "observation",
                                     summary |-> ObservationSummary])
    /\ UNCHANGED <<executing, loaded, DREAM_ENCRYPTION_KEY, keyFile,
                   generated, keyLog, deep, dreamsDir, stateFile, now, pc,
                   memories, dream, outcome, cycleStart, tampered, cycles,
                   appended, obtained, remembering, recalled>>

\* The disk damages one stored ciphertext.
Tamper ==
    /\ tampered < MaxTamper
    /\ tampered' = tampered + 1
    /\ \E i \in 1..Len(deep) :
          /\ deep[i].encrypted_blob.intact
          /\ deep' = [deep EXCEPT ![i].encrypted_blob.intact = FALSE]
    /\ UNCHANGED <<executing, loaded, DREAM_ENCRYPTION_KEY, keyFile,
                   generated, keyLog, working, dreamsDir, stateFile, now, pc,
                   memories, dream, outcome, cycleStart, inserted,
                   observations, cycles, appended, obtained, remembering,
                   recalled>>


\* --------------------------------------------------------- run_dream_cycle

Ids(ms) == [i \in 1..Len(ms) |-> ms[i].id]

\* run_dream_cycle returns or raises: its locals are gone.
EndCycle(how) ==
    /\ pc' = "idle"
    /\ outcome' = how
    /\ memories' = <<>>
    /\ dream' = NoDream
    /\ cycleStart' = NoSnapshot

\* Faulty variant: the records are marked as soon as they are collected.
CollectMemories_MarksAtCollection ==
    /\ pc = "idle"
    /\ cycles < MaxCycles
    /\ cycles' = cycles + 1
    /\ \E r \in get_or_create_dream_key(DREAM_ENCRYPTION_KEY, keyFile) :
          /\ retrieve_undreamed_memories(deep, r.key) # <<>>
          /\ keyFile' = r.keyFile
          /\ generated' = r.generated
          /\ keyLog' = keyLog
          /\ obtained' = [obtained EXCEPT !.dreaming = @ \cup {r.key}]
          /\ memories' = retrieve_undreamed_memories(deep, r.key)
          /\ deep' = mark_as_dreamed(
                         deep, Ids(retrieve_undreamed_memories(deep, r.key)), now)
    /\ cycleStart' = Snapshot
    /\ pc' = "synthesizing"
    /\ outcome' = "running"
    /\ UNCHANGED <<executing, loaded, DREAM_ENCRYPTION_KEY, working,
                   dreamsDir, stateFile, now, dream, inserted, observations,
                   tampered, appended, remembering, recalled>>

\* lines 122-135: stats, retrieve; undreamed memories were found
CollectMemories ==
    /\ pc = "idle"
    /\ cycles < MaxCycles
    /\ cycles' = cycles + 1
    /\ \E r \in get_or_create_dream_key(DREAM_ENCRYPTION_KEY, keyFile) :
          /\ retrieve_undreamed_memories(deep, r.key) # <<>>
          /\ keyFile' = r.keyFile
          /\ generated' = r.generated
          /\ keyLog' = keyLog
          /\ obtained' = [obtained EXCEPT !.dreaming = @ \cup {r.key}]
          /\ memories' = retrieve_undreamed_memories(deep, r.key)
    /\ cycleStart' = Snapshot
    /\ pc' = "synthesizing"
    /\ outcome' = "running"
    /\ UNCHANGED <<executing, loaded, DREAM_ENCRYPTION_KEY, deep, working,
                   dreamsDir, stateFile, now, dream, inserted, observations,
                   tampered, appended, remembering, recalled>>

\* lines 122-133: stats, retrieve; nothing undreamed: the dreamless night
CollectDreamless ==
    /\ pc = "idle"
    /\ cycles < MaxCycles
    /\ cycles' = cycles + 1
    /\ \E r \in get_or_create_dream_key(DREAM_ENCRYPTION_KEY, keyFile) :
          /\ retrieve_undreamed_memories(deep, r.key) = <<>>
          /\ keyFile' = r.keyFile
          /\ generated' = r.generated
          /\ keyLog' = keyLog
          /\ obtained' = [obtained EXCEPT !.dreaming = @ \cup {r.key}]
    /\ stateFile' = DreamlessState(stateFile, now)
    /\ EndCycle("dreamless")
    /\ UNCHANGED <<executing, loaded, DREAM_ENCRYPTION_KEY, deep, working,
                   dreamsDir, now, inserted, observations, tampered,
                   appended, remembering, recalled>>

\* line 132: nothing undreamed, and the write of state.json raises
DreamlessStateWriteFails ==
    /\ pc = "idle"
    /\ cycles < MaxCycles
    /\ cycles' = cycles + 1
    /\ \E r \in get_or_create_dream_key(DREAM_ENCRYPTION_KEY, keyFile) :
          /\ retrieve_undreamed_memories(deep, r.key) = <<>>
          /\ keyFile' = r.keyFile
          /\ generated' = r.generated
          /\ keyLog' = keyLog
          /\ obtained' = [obtained EXCEPT !.dreaming = @ \cup {r.key}]
    /\ EndCycle("state_write_failed")
    /\ UNCHANGED <<executing, loaded, DREAM_ENCRYPTION_KEY, deep, working,
                   dreamsDir, stateFile, now, inserted, observations,
                   tampered, appended, remembering, recalled>>

\* line 139: the generation collaborator answers and the answer is parsed
GenerateDream ==
    /\ pc = "synthesizing"
    /\ \E response \in Responses : dream' = ParseDream(response)
    /\ pc' = "persisting"
    /\ UNCHANGED <<executing, loaded, DREAM_ENCRYPTION_KEY, keyFile,
                   generated, keyLog, deep, working, dreamsDir, stateFile,
                   now, memories, outcome, cycleStart, inserted,
                   observations, tampered, cycles, appended, obtained,
                   remembering, recalled>>

\* line 139: the generation collaborator raises
GenerationFails ==
    /\ pc = "synthesizing"
    /\ EndCycle("generation_failed")
    /\ UNCHANGED <<executing, loaded, DREAM_ENCRYPTION_KEY, keyFile,
                   generated, keyLog, deep, working, dreamsDir, stateFile,
                   now, inserted, observations, tampered, cycles, appended,
                   obtained, remembering, recalled>>

\* lines 148-149: the dream file is written
SaveDream ==
    /\ pc = "persisting"
    /\ dreamsDir' = save_dream_locally(dreamsDir, dream, DateOf(now))
    /\ pc' = "promoting"
    /\ UNCHANGED <<executing, loaded, DREAM_ENCRYPTION_KEY, keyFile,
                   generated, keyLog, deep, working, stateFile, now,
                   memories, dream, outcome, cycleStart, inserted,
                   observations, tampered, cycles, appended, obtained,
                   remembering, recalled>>

\* line 149: the write of the dream file raises
SaveDreamFails ==
    /\ pc = "persisting"
    /\ EndCycle("archive_write_failed")
    /\ UNCHANGED <<executing, loaded, DREAM_ENCRYPTION_KEY, keyFile,
                   generated, keyLog, deep, working, dreamsDir, stateFile,
                   now, inserted, observations, tampered, cycles, appended,
                   obtained, remembering, recalled>>

\* Faulty variant: the promotion step is passed without writing the insight.
Promote_NotWritten ==
    /\ pc = "promoting"
    /\ pc' = "marking"
    /\ UNCHANGED <<executing, loaded, DREAM_ENCRYPTION_KEY, keyFile,
                   generated, keyLog, deep, working, dreamsDir, stateFile,
                   now, memories, dream, outcome, cycleStart, inserted,
                   observations, tampered, cycles, appended, obtained,
                   remembering, recalled>>

\* lines 153-155: the insight, if any, goes to working memory
Promote ==
    /\ pc = "promoting"
    /\ IF dream.consolidation # <<>>
       THEN /\ working' = consolidate_dream_insight(working, dream.consolidation, now)
            /\ inserted' = Append(inserted,
                               [timestamp |-> now, category |-> "dream_consolidation",
                                summary |-> DreamInsightPrefix \o dream.consolidation])
       ELSE UNCHANGED <<working, inserted>>
    /\ pc' = "marking"
    /\ UNCHANGED <<executing, loaded, DREAM_ENCRYPTION_KEY, keyFile,
                   generated, keyLog, deep, dreamsDir, stateFile, now,
                   memories, dream, outcome, cycleStart, observations,
                   tampered, cycles, appended, obtained, remembering,
                   recalled>>

\* line 154: the write of working.json raises
PromoteFails ==
    /\ pc = "promoting"
    /\ dream.consolidation # <<>>
    /\ EndCycle("promotion_failed")
    /\ UNCHANGED <<executing, loaded, DREAM_ENCRYPTION_KEY, keyFile,
                   generated, keyLog, deep, working, dreamsDir, stateFile,
                   now, inserted, observations, tampered, cycles, appended,
                   obtained, remembering, recalled>>

\* Faulty variant: the marking step queries the undreamed records again.
MarkDreamed_Requery ==
    /\ pc = "marking"
    /\ \E r \in get_or_create_dream_key(DREAM_ENCRYPTION_KEY, keyFile) :
          deep' = mark_as_dreamed(
                     deep, Ids(retrieve_undreamed_memories(deep, r.key)), now)
    /\ pc' = "updating"
    /\ UNCHANGED <<executing, loaded, DREAM_ENCRYPTION_KEY, keyFile,
                   generated, keyLog, working, dreamsDir, stateFile, now,
                   memories, dream, outcome, cycleStart, inserted,
                   observations, tampered, cycles, appended, obtained,
                   remembering, recalled>>

\* Faulty variant: the marking step is passed without an UPDATE.
MarkDreamed_Skipped ==
    /\ pc = "marking"
    /\ pc' = "updating"
    /\ UNCHANGED <<executing, loaded, DREAM_ENCRYPTION_KEY, keyFile,
                   generated, keyLog, deep, working, dreamsDir, stateFile,
                   now, memories, dream, outcome, cycleStart, inserted,
                   observations, tampered, cycles, appended, obtained,
                   remembering, recalled>>

\* lines 158-159: the collected ids are marked
MarkDreamed ==
    /\ pc = "marking"
    /\ deep' = mark_as_dreamed(deep, Ids(memories), now)
    /\ pc' = "updating"
    /\ UNCHANGED <<executing, loaded, DREAM_ENCRYPTION_KEY, keyFile,
                   generated, keyLog, working, dreamsDir, stateFile, now,
                   memories, dream, outcome, cycleStart, inserted,
                   observations, tampered, cycles, appended, obtained,
                   remembering, recalled>>

\* line 159: the UPDATE raises
MarkFails ==
    /\ pc = "marking"
    /\ EndCycle("marking_failed")
    /\ UNCHANGED <<executing, loaded, DREAM_ENCRYPTION_KEY, keyFile,
                   generated, keyLog, deep, working, dreamsDir, stateFile,
                   now, inserted, observations, tampered, cycles, appended,
                   obtained, remembering, recalled>>

\* lines 163-170: the state file is updated and the dream returned
UpdateState ==
    /\ pc = "updating"
    /\ stateFile' = DreamedState(stateFile, dream, now)
    /\ EndCycle("dreamed")
    /\ UNCHANGED <<executing, loaded, DREAM_ENCRYPTION_KEY, keyFile,
                   generated, keyLog, deep, working, dreamsDir, now,
                   inserted, observations, tampered, cycles, appended,
                   obtained, remembering, recalled>>

\* line 167: the write of state.json raises
UpdateStateFails ==
    /\ pc = "updating"
    /\ EndCycle("state_write_failed")
    /\ UNCHANGED <<executing, loaded, DREAM_ENCRYPTION_KEY, keyFile,
                   generated, keyLog, deep, working, dreamsDir, stateFile,
                   now, inserted, observations, tampered, cycles, appended,
                   obtained, remembering, recalled>>

Next ==
    \/ Tick
    \/ Remember
    \/ FeedScan
    \/ EmptyFeed
    \/ Tamper
    \/ CollectMemories
    \/ CollectDreamless
    \/ DreamlessStateWriteFails
    \/ GenerateDream
    \/ GenerationFails
    \/ SaveDream
    \/ SaveDreamFails
    \/ Promote
    \/ PromoteFails
    \/ MarkDreamed
    \/ MarkFails
    \/ UpdateState
    \/ UpdateStateFails

Spec == Init /\ [][Next]_vars


\* ------------------------------------------------- the store API, called directly

RECURSIVE Ascending(_)
\* the ids of a set as a list, smallest first
Ascending(S) ==
    IF S = {} THEN <<>>
    ELSE LET m == CHOOSE x \in S : \A y \in S : x <= y
         IN <<m>> \o Ascending(S \ {m})

\* mark_as_dreamed(memory_ids), called by an operator on ids of its choosing
MarkAsDreamed ==
    /\ \E S \in SUBSET (1..Len(deep)) :
          deep' = mark_as_dreamed(deep, Ascending(S), now)
    /\ UNCHANGED <<executing, loaded, DREAM_ENCRYPTION_KEY, keyFile,
                   generated, keyLog, working, dreamsDir, stateFile, now, pc,
                   memories, dream, outcome, cycleStart, inserted,
                   observations, tampered, cycles, appended, obtained,
                   remembering, recalled>>

NextApi ==
    \/ Tick
    \/ Remember
    \/ FeedScan
    \/ EmptyFeed
    \/ Tamper
    \/ MarkAsDreamed

SpecApi == Init /\ [][NextApi]_vars

\* ------------------------------------- the deep store under a wall clock

\* datetime.now(timezone.utc) is the wall clock: an adjustment sets it back.
ClockStepsBack ==
    /\ now > 1
    /\ now' = now - 1
    /\ UNCHANGED <<executing, loaded, DREAM_ENCRYPTION_KEY, keyFile,
                   generated, keyLog, deep, working, dreamsDir, stateFile,
                   pc, memories, dream, outcome, cycleStart, inserted,
                   observations, tampered, cycles, appended, obtained,
                   remembering, recalled>>

\* store_deep_memory(content, category), called directly
StoreDeepMemory ==
    /\ Len(deep) < MaxListed
    /\ \E post \in Posts,
          r \in get_or_create_dream_key(DREAM_ENCRYPTION_KEY, keyFile) :
          /\ keyFile' = r.keyFile
          /\ generated' = r.generated
          /\ keyLog' = keyLog
          /\ obtained' = [obtained EXCEPT !.waking = @ \cup {r.key}]
          /\ appended' = Append(appended, [content |-> FeedCheck(post),
                                            category |-> "feed_scan"])
          /\ deep' = store_deep_memory(deep, r.key,
                                       FeedCheck(post),
                                       "feed_scan", now)
    /\ UNCHANGED <<executing, loaded, DREAM_ENCRYPTION_KEY, working,
                   dreamsDir, stateFile, now, pc, memories, dream, outcome,
                   cycleStart, inserted, observations, tampered, cycles,
                   remembering, recalled>>

NextWallClock ==
    \/ Tick
    \/ ClockStepsBack
    \/ StoreDeepMemory
    \/ MarkAsDreamed

SpecWallClock == Init /\ [][NextWallClock]_vars

\* ------------------------------------------------- the waking process alone

\* remember(), line 267: the summary goes to working memory
RememberWorking ==
    /\ remembering = NULL
    /\ Len(inserted) < Preloaded + MaxRemembered
    /\ \E summary \in Summaries, category \in ActionCategories, post \in Posts :
          /\ working' = store_working_memory(working, summary, category, now)
          /\ inserted' = Append(inserted, [timestamp |-> now, category |-> category,
                                           summary |-> summary])
          /\ remembering' = Some([full_context |-> ActionContext(category, post),
                                  category |-> category])
    /\ UNCHANGED <<executing, loaded, DREAM_ENCRYPTION_KEY, keyFile,
                   generated, keyLog, deep, dreamsDir, stateFile, now, pc,
                   memories, dream, outcome, cycleStart, observations,
                   tampered, cycles, appended, obtained, recalled>>

\* remember(), line 268: the full context goes to deep memory
RememberDeep ==
    /\ remembering # NULL
    /\ \E r \in get_or_create_dream_key(DREAM_ENCRYPTION_KEY, keyFile) :
          /\ keyFile' = r.keyFile
          /\ generated' = r.generated
          /\ keyLog' = keyLog
          /\ obtained' = [obtained EXCEPT !.waking = @ \cup {r.key}]
          /\ appended' = Append(appended, [content |-> remembering[1].full_context,
                                            category |-> remembering[1].category])
          /\ deep' = store_deep_memory(deep, r.key, remembering[1].full_context,
                                       remembering[1].category, now)
    /\ remembering' = NULL
    /\ UNCHANGED <<executing, loaded, DREAM_ENCRYPTION_KEY, working,
                   dreamsDir, stateFile, now, pc, memories, dream, outcome,
                   cycleStart, inserted, observations, tampered, cycles,
                   recalled>>

\* Faulty variant: a failed deep write takes the working-memory entry back.
RememberDeepFails_RollsBack ==
    /\ remembering # NULL
    /\ remembering' = NULL
    /\ working' = SubSeq(working, 1, Len(working) - 1)
    /\ UNCHANGED <<executing, loaded, DREAM_ENCRYPTION_KEY, keyFile,
                   generated, keyLog, deep, dreamsDir, stateFile, now, pc,
                   memories, dream, outcome, cycleStart, inserted,
                   observations, tampered, cycles, appended, obtained,
                   recalled>>

\* remember(), line 268: store_deep_memory raises, before get_cipher or
\* after it (the key file may have been created by then)
RememberDeepFails ==
    /\ remembering # NULL
    /\ remembering' = NULL
    /\ \/ UNCHANGED <<keyFile, generated, keyLog, obtained>>
       \/ \E r \in get_or_create_dream_key(DREAM_ENCRYPTION_KEY, keyFile) :
             /\ keyFile' = r.keyFile
             /\ generated' = r.generated
             /\ keyLog' = keyLog
             /\ obtained' = [obtained EXCEPT !.waking = @ \cup {r.key}]
    /\ UNCHANGED <<executing, loaded, DREAM_ENCRYPTION_KEY, deep, working,
                   dreamsDir, stateFile, now, pc, memories, dream, outcome,
                   cycleStart, inserted, observations, tampered, cycles,
                   appended, recalled>>

\* The limits and filters get_working_memory is called with.
Limits == {NULL, Some(0), Some(1), Some(WORKING_MEMORY_MAX_ENTRIES + 1)}

Filters == {NULL, Some("observation"), Some("upvote")}

\* The budgets get_working_memory_context is called with.
Budgets == {0, 10, 100, DefaultMaxTokens}

\* get_working_memory(limit, category) is called
GetWorkingMemory ==
    /\ \E limit \in Limits, category \in Filters :
          recalled' = [call |-> "get_working_memory", of |-> working,
                       limit |-> limit, category |-> category,
                       result |-> get_working_memory(working, limit, category)]
    /\ UNCHANGED <<executing, loaded, DREAM_ENCRYPTION_KEY, keyFile,
                   generated, keyLog, deep, working, dreamsDir, stateFile,
                   now, pc, memories, dream, outcome, cycleStart, inserted,
                   observations, tampered, cycles, appended, obtained,
                   remembering>>

\* get_working_memory_context(max_tokens_approx) is called
GetWorkingMemoryContext ==
    /\ \E max_tokens_approx \in Budgets :
          recalled' = [call |-> "get_working_memory_context", of |-> working,
                       max_tokens_approx |-> max_tokens_approx,
                       result |-> get_working_memory_context(working, max_tokens_approx)]
    /\ UNCHANGED <<executing, loaded, DREAM_ENCRYPTION_KEY, keyFile,
                   generated, keyLog, deep, working, dreamsDir, stateFile,
                   now, pc, memories, dream, outcome, cycleStart, inserted,
                   observations, tampered, cycles, appended, obtained,
                   remembering>>

\* The waking process reading its working memory.
NextRecall ==
    \/ Tick
    \/ Remember
    \/ EmptyFeed
    \/ GetWorkingMemory
    \/ GetWorkingMemoryContext

SpecRecall == Init /\ [][NextRecall]_vars

\* The waking process remembering, one write at a time.
NextWaking ==
    \/ Tick
    \/ RememberWorking
    \/ RememberDeep
    \/ RememberDeepFails
    \/ EmptyFeed

SpecWaking == Init /\ [][NextWaking]_vars

\* ------------------------------------------------------- resolving the key

\* get_or_create_dream_key called directly, as get_cipher calls it
GetOrCreateDreamKey ==
    /\ Len(keyLog) < MaxKeyCalls
    /\ DREAM_ENCRYPTION_KEY # "" \/ keyFile # NULL \/ generated < MaxGenerated
    /\ \E r \in get_or_create_dream_key(DREAM_ENCRYPTION_KEY, keyFile) :
          /\ keyFile' = r.keyFile
          /\ generated' = r.generated
          /\ keyLog' = Append(keyLog, [cfg       |-> DREAM_ENCRYPTION_KEY,
                                       before    |-> keyFile,
                                       after     |-> r.keyFile,
                                       key       |-> r.key,
                                       generated |-> r.generated - generated])
    /\ UNCHANGED <<executing, loaded, DREAM_ENCRYPTION_KEY, deep, working,
                   dreamsDir, stateFile, now, pc, memories, dream, outcome,
                   cycleStart, inserted, observations, tampered, cycles,
                   appended, obtained, remembering, recalled>>

\* The keys an operator may configure or install.
ConfiguredKeys == {"c1", "c2"}

InstalledKeys == {"f1"}

\* From outside: the process is restarted with another DREAM_ENCRYPTION_KEY
\* in its environment.
Reconfigure ==
    /\ \E cfg \in (ConfiguredKeys \cup {""}) \ {DREAM_ENCRYPTION_KEY} :
          DREAM_ENCRYPTION_KEY' = cfg
    /\ keyLog' = <<>>
    /\ UNCHANGED <<executing, loaded, keyFile, generated, deep, working,
                   dreamsDir, stateFile, now, pc, memories, dream, outcome,
                   cycleStart, inserted, observations, tampered, cycles,
                   appended, obtained, remembering, recalled>>

\* From outside: data/.dream_key is deleted.
KeyFileRemoved ==
    /\ keyFile # NULL
    /\ keyFile' = NULL
    /\ keyLog' = <<>>
    /\ UNCHANGED <<executing, loaded, DREAM_ENCRYPTION_KEY, generated, deep,
                   working, dreamsDir, stateFile, now, pc, memories, dream,
                   outcome, cycleStart, inserted, observations, tampered,
                   cycles, appended, obtained, remembering, recalled>>

\* From outside: a key file is put in place.
KeyFileInstalled ==
    /\ \E k \in InstalledKeys :
          /\ keyFile # Some(k)
          /\ keyFile' = Some(k)
    /\ keyLog' = <<>>
    /\ UNCHANGED <<executing, loaded, DREAM_ENCRYPTION_KEY, generated, deep,
                   working, dreamsDir, stateFile, now, pc, memories, dream,
                   outcome, cycleStart, inserted, observations, tampered,
                   cycles, appended, obtained, remembering, recalled>>

NextKey ==
    \/ GetOrCreateDreamKey
    \/ Reconfigure
    \/ KeyFileRemoved
    \/ KeyFileInstalled

SpecKey == Init /\ [][NextKey]_vars

\* ------------------------------------------------------- execute_actions

\* The posts check_and_engage hands to execute_actions.
FeedPosts == <<"p1">>

\* What decide_engagement may return for one action: a pass, an upvote of
\* the post and one of a post that is not there, a comment with and without
\* text, a new post.
Actions ==
    { [action |-> "pass",    post_index |-> 0, title |-> "",  content |-> ""],
      [action |-> "upvote",  post_index |-> 0, title |-> "",  content |-> ""],
      [action |-> "upvote",  post_index |-> 1, title |-> "",  content |-> ""],
      [action |-> "comment", post_index |-> 0, title |-> "",  content |-> "c"],
      [action |-> "comment", post_index |-> 0, title |-> "",  content |-> ""],
      [action |-> "post",    post_index |-> 0, title |-> "t", content |-> "c"] }

ActionLists == UNION {[1..n -> Actions] : n \in 0..MaxActions}

\* The conditions under which an action reaches its feed call.
CallsFeed(a) ==
    \/ a.action = "upvote" /\ a.post_index < Len(FeedPosts)
    \/ a.action = "comment" /\ a.post_index < Len(FeedPosts) /\ a.content # ""
    \/ a.action = "post" /\ a.title # "" /\ a.content # ""

\* The full_context execute_actions remembers for an action.
ContextOf(a) ==
    IF a.action = "post"
    THEN PyDict(<< <<"type", PyStr("new_post")>>, <<"title", PyStr(a.title)>>,
                   <<"content", PyStr(a.content)>> >>)
    ELSE ActionContext(a.action, FeedPosts[a.post_index + 1])

\* The loop moves on to the next action; the log keeps how the feed call of
\* this one went and how many entries the two stores hold after it.
NextAction(feed, nInserted, nDeep) ==
    [executing EXCEPT !.pc = "loop",
                      !.i = @ + 1,
                      !.log = Append(@, [action   |-> executing.actions[executing.i],
                                         feed     |-> feed,
                                         inserted |-> nInserted,
                                         deep     |-> nDeep])]

\* check_and_engage calls execute_actions(moltbook, claude, actions, posts)
ExecuteActions ==
    /\ executing.pc = "none"
    /\ \E actions \in ActionLists :
          executing' = [pc |-> "loop", actions |-> actions, i |-> 1, log |-> <<>>,
                        start |-> [inserted |-> Len(inserted), deep |-> Len(deep)]]
    /\ UNCHANGED <<DREAM_ENCRYPTION_KEY, keyFile, generated, keyLog, deep,
                   working, dreamsDir, stateFile, now, pc, memories, dream,
                   outcome, cycleStart, inserted, observations, tampered,
                   cycles, appended, obtained, remembering, recalled, loaded>>

\* act == "pass": continue
ActionPassed ==
    /\ executing.pc = "loop"
    /\ executing.i <= Len(executing.actions)
    /\ executing.actions[executing.i].action = "pass"
    /\ executing' = NextAction("none", Len(inserted), Len(deep))
    /\ UNCHANGED <<DREAM_ENCRYPTION_KEY, keyFile, generated, keyLog, deep,
                   working, dreamsDir, stateFile, now, pc, memories, dream,
                   outcome, cycleStart, inserted, observations, tampered,
                   cycles, appended, obtained, remembering, recalled, loaded>>

\* The index is past the feed, or the text is empty: nothing is done.
ActionSkipped ==
    /\ executing.pc = "loop"
    /\ executing.i <= Len(executing.actions)
    /\ executing.actions[executing.i].action # "pass"
    /\ ~CallsFeed(executing.actions[executing.i])
    /\ executing' = NextAction("none", Len(inserted), Len(deep))
    /\ UNCHANGED <<DREAM_ENCRYPTION_KEY, keyFile, generated, keyLog, deep,
                   working, dreamsDir, stateFile, now, pc, memories, dream,
                   outcome, cycleStart, inserted, observations, tampered,
                   cycles, appended, obtained, remembering, recalled, loaded>>

\* moltbook.upvote / comment / create_post returns
FeedCallSucceeds ==
    /\ executing.pc = "loop"
    /\ executing.i <= Len(executing.actions)
    /\ CallsFeed(executing.actions[executing.i])
    /\ executing' = [executing EXCEPT !.pc = "called"]
    /\ UNCHANGED <<DREAM_ENCRYPTION_KEY, keyFile, generated, keyLog, deep,
                   working, dreamsDir, stateFile, now, pc, memories, dream,
                   outcome, cycleStart, inserted, observations, tampered,
                   cycles, appended, obtained, remembering, recalled, loaded>>

\* Faulty variant: the exception of the feed call leaves the loop.
FeedCallFails_AbortsLoop ==
    /\ executing.pc = "loop"
    /\ executing.i <= Len(executing.actions)
    /\ CallsFeed(executing.actions[executing.i])
    /\ executing' = [NextAction("failed", Len(inserted), Len(deep))
                        EXCEPT !.i = Len(executing.actions) + 1]
    /\ UNCHANGED <<DREAM_ENCRYPTION_KEY, keyFile, generated, keyLog, deep,
                   working, dreamsDir, stateFile, now, pc, memories, dream,
                   outcome, cycleStart, inserted, observations, tampered,
                   cycles, appended, obtained, remembering, recalled, loaded>>

\* moltbook.upvote / comment / create_post raises: the except branch prints
\* and the loop goes on
FeedCallFails ==
    /\ executing.pc = "loop"
    /\ executing.i <= Len(executing.actions)
    /\ CallsFeed(executing.actions[executing.i])
    /\ executing' = NextAction("failed", Len(inserted), Len(deep))
    /\ UNCHANGED <<DREAM_ENCRYPTION_KEY, keyFile, generated, keyLog, deep,
                   working, dreamsDir, stateFile, now, pc, memories, dream,
                   outcome, cycleStart, inserted, observations, tampered,
                   cycles, appended, obtained, remembering, recalled, loaded>>

\* summarize_interaction raises after the feed call went through: the same
\* except branch, nothing is remembered
SummarizeFails ==
    /\ executing.pc = "called"
    /\ executing' = NextAction("ok", Len(inserted), Len(deep))
    /\ UNCHANGED <<DREAM_ENCRYPTION_KEY, keyFile, generated, keyLog, deep,
                   working, dreamsDir, stateFile, now, pc, memories, dream,
                   outcome, cycleStart, inserted, observations, tampered,
                   cycles, appended, obtained, remembering, recalled, loaded>>

\* summarize_interaction returns and remember() stores the action
RememberAction ==
    /\ executing.pc = "called"
    /\ \E summary \in Summaries,
          r \in get_or_create_dream_key(DREAM_ENCRYPTION_KEY, keyFile) :
          LET a == executing.actions[executing.i]
          IN /\ working' = store_working_memory(working, summary, a.action, now)
             /\ inserted' = Append(inserted, [timestamp |-> now,
                                              category |-> a.action,
                                              summary |-> summary])
             /\ keyFile' = r.keyFile
             /\ generated' = r.generated
             /\ obtained' = [obtained EXCEPT !.waking = @ \cup {r.key}]
             /\ appended' = Append(appended, [content |-> ContextOf(a),
                                              category |-> a.action])
             /\ deep' = store_deep_memory(deep, r.key, ContextOf(a), a.action, now)
    /\ executing' = NextAction("ok", Len(inserted) + 1, Len(deep) + 1)
    /\ UNCHANGED <<DREAM_ENCRYPTION_KEY, keyLog, dreamsDir, stateFile, now,
                   pc, memories, dream, outcome, cycleStart, observations,
                   tampered, cycles, remembering, recalled, loaded>>

\* the for loop is through its list
ExecuteActionsReturns ==
    /\ executing.pc = "loop"
    /\ executing.i > Len(executing.actions)
    /\ executing' = [executing EXCEPT !.pc = "done"]
    /\ UNCHANGED <<DREAM_ENCRYPTION_KEY, keyFile, generated, keyLog, deep,
                   working, dreamsDir, stateFile, now, pc, memories, dream,
                   outcome, cycleStart, inserted, observations, tampered,
                   cycles, appended, obtained, remembering, recalled, loaded>>

NextExecute ==
    \/ ExecuteActions
    \/ ActionPassed
    \/ ActionSkipped
    \/ FeedCallSucceeds
    \/ FeedCallFails
    \/ SummarizeFails
    \/ RememberAction
    \/ ExecuteActionsReturns

SpecExecute == Init /\ [][NextExecute]_vars

\* ------------------------------------------- two writers of working.json

\* The consolidations a dream may carry.
Insights == {<<"i">>}

\* The calls of store_working_memory that have loaded and not yet saved.
Writing == Cardinality({w \in DOMAIN loaded : loaded[w] # NULL})

\* The waking process in store_working_memory: _load_working_memory()
WakingLoads ==
    /\ loaded.waking = NULL
    /\ Len(inserted) + Writing < Preloaded + MaxRaced
    /\ loaded' = [loaded EXCEPT !.waking = Some(working)]
    /\ UNCHANGED <<DREAM_ENCRYPTION_KEY, keyFile, generated, keyLog, deep,
                   working, dreamsDir, stateFile, now, pc, memories, dream,
                   outcome, cycleStart, inserted, observations, tampered,
                   cycles, appended, obtained, remembering, recalled,
                   executing>>

\* ... and its append, prune and _save_working_memory()
WakingSaves ==
    /\ loaded.waking # NULL
    /\ \E summary \in Summaries, category \in ActionCategories :
          /\ working' = store_working_memory(loaded.waking[1], summary, category, now)
          /\ inserted' = Append(inserted, [timestamp |-> now, category |-> category,
                                           summary |-> summary])
    /\ loaded' = [loaded EXCEPT !.waking = NULL]
    /\ UNCHANGED <<DREAM_ENCRYPTION_KEY, keyFile, generated, keyLog, deep,
                   dreamsDir, stateFile, now, pc, memories, dream, outcome,
                   cycleStart, observations, tampered, cycles, appended,
                   obtained, remembering, recalled, executing>>

\* The dream process in consolidate_dream_insight: the load
DreamLoads ==
    /\ loaded.dreaming = NULL
    /\ Len(inserted) + Writing < Preloaded + MaxRaced
    /\ loaded' = [loaded EXCEPT !.dreaming = Some(working)]
    /\ UNCHANGED <<DREAM_ENCRYPTION_KEY, keyFile, generated, keyLog, deep,
                   working, dreamsDir, stateFile, now, pc, memories, dream,
                   outcome, cycleStart, inserted, observations, tampered,
                   cycles, appended, obtained, remembering, recalled,
                   executing>>

\* ... and its append, prune and save
DreamSaves ==
    /\ loaded.dreaming # NULL
    /\ \E insight \in Insights :
          /\ working' = consolidate_dream_insight(loaded.dreaming[1], insight, now)
          /\ inserted' = Append(inserted, [timestamp |-> now,
                                           category |-> "dream_consolidation",
                                           summary |-> DreamInsightPrefix \o insight])
    /\ loaded' = [loaded EXCEPT !.dreaming = NULL]
    /\ UNCHANGED <<DREAM_ENCRYPTION_KEY, keyFile, generated, keyLog, deep,
                   dreamsDir, stateFile, now, pc, memories, dream, outcome,
                   cycleStart, observations, tampered, cycles, appended,
                   obtained, remembering, recalled, executing>>

\* The waking loop and the dream cycle as two processes on one data directory.
NextRace ==
    \/ Tick
    \/ WakingLoads
    \/ WakingSaves
    \/ DreamLoads
    \/ DreamSaves

SpecRace == Init /\ [][NextRace]_vars

\* ------------------------------------------- dream cycles run for ever

\* run_dream_cycle is started again, however many cycles have run: the
\* collection step when undreamed memories are found ...
RunDreamCycle ==
    /\ pc = "idle"
    /\ \E r \in get_or_create_dream_key(DREAM_ENCRYPTION_KEY, keyFile) :
          /\ retrieve_undreamed_memories(deep, r.key) # <<>>
          /\ keyFile' = r.keyFile
          /\ generated' = r.generated
          /\ obtained' = [obtained EXCEPT !.dreaming = @ \cup {r.key}]
          /\ memories' = retrieve_undreamed_memories(deep, r.key)
    /\ cycleStart' = Snapshot
    /\ pc' = "synthesizing"
    /\ outcome' = "running"
    /\ UNCHANGED <<DREAM_ENCRYPTION_KEY, keyLog, deep, working, dreamsDir,
                   stateFile, now, dream, inserted, observations, tampered,
                   cycles, appended, remembering, recalled, executing,
                   loaded>>

\* ... and the dreamless night when there are none
RunDreamlessCycle ==
    /\ pc = "idle"
    /\ \E r \in get_or_create_dream_key(DREAM_ENCRYPTION_KEY, keyFile) :
          /\ retrieve_undreamed_memories(deep, r.key) = <<>>
          /\ keyFile' = r.keyFile
          /\ generated' = r.generated
          /\ obtained' = [obtained EXCEPT !.dreaming = @ \cup {r.key}]
    /\ stateFile' = DreamlessState(stateFile, now)
    /\ EndCycle("dreamless")
    /\ UNCHANGED <<DREAM_ENCRYPTION_KEY, keyLog, deep, working, dreamsDir,
                   now, inserted, observations, tampered, cycles, appended,
                   remembering, recalled, executing, loaded>>

\* The waking loop appends while cycles are run one after another; no write
\* to a store fails; the generation collaborator may fail.
NextLive ==
    \/ FeedScan
    \/ Tamper
    \/ RunDreamCycle
    \/ RunDreamlessCycle
    \/ GenerateDream
    \/ GenerationFails
    \/ SaveDream
    \/ Promote
    \/ MarkDreamed
    \/ UpdateState

\* The scheduler starts a cycle whenever none is running and a running cycle
\* takes its next step; the collaborator does not fail for ever.
FairLive ==
    /\ WF_vars(RunDreamCycle)
    /\ WF_vars(RunDreamlessCycle)
    /\ SF_vars(GenerateDream)
    /\ WF_vars(SaveDream)
    /\ WF_vars(Promote)
    /\ WF_vars(MarkDreamed)
    /\ WF_vars(UpdateState)

SpecLive == Init /\ [][NextLive]_vars /\ FairLive

\* --------------------------------------------------- parsing a response

\* The lines a generation response is made of: blank, a title with and
\* without a heading mark, narrative lines, and lines that do and do not
\* start with the consolidation marker.
ResponseLines ==
    { <<>>,
      <<"#", " ", "T">>,
      <<" ", "U", " ">>,
      <<"a">>,
      <<" ", "b", " ">>,
      <<"C", "O", "N", "S", "O", "L", "I", "D", "A", "T", "I", "O", "N", ":", " ", "i">>,
      <<" ", "c", "o", "n", "s", "o", "l", "i", "d", "a", "t", "i", "o", "n", ":", "j", ":", "k">>,
      <<"x", " ", "C", "O", "N", "S", "O", "L", "I", "D", "A", "T", "I", "O", "N", ":", " ", "n">> }

\* The response texts: up to MaxLines lines joined by newlines.
ResponseTexts ==
    {Join(ls, "\n") : ls \in UNION {[1..n -> ResponseLines] : n \in 0..MaxLines}}

\* generate_dream parsing the text the collaborator answered; the parse
\* keeps nothing from one call to the next, so a behaviour holds one call
ParseResponse ==
    /\ recalled = NoCall
    /\ \E response \in ResponseTexts :
          recalled' = [call |-> "generate_dream", response |-> response,
                       result |-> ParseDream(response)]
    /\ UNCHANGED <<executing, loaded, DREAM_ENCRYPTION_KEY, keyFile,
                   generated, keyLog, deep, working, dreamsDir, stateFile,
                   now, pc, memories, dream, outcome, cycleStart, inserted,
                   observations, tampered, cycles, appended, obtained,
                   remembering>>

NextParse == ParseResponse

SpecParse == Init /\ [][NextParse]_vars

\* ------------------------------------------------------------------ claims

\* The keys a reader of the deep store would decrypt with now.
ReaderKeys ==
    {r.key : r \in get_or_create_dream_key(DREAM_ENCRYPTION_KEY, keyFile)}

Unprocessed(db) == {i \in 1..Len(db) : db[i].dreamed = 0}

IdSet(ms) == {ms[i].id : i \in 1..Len(ms)}

\* The dream insights among the working-memory insertions after the first n.
InsightsAfter(ins, n) ==
    {k \in (n + 1)..Len(ins) : ins[k].category = "dream_consolidation"}

\* C1: when the generation call fails, the cycle has changed nothing: the
\* dreamed flag and dream date of every record are as the cycle found them,
\* the cycle inserted nothing into working memory, the archive and the state
\* file are as the cycle found them, and the records it had collected are
\* all returned by the next retrieve_undreamed_memories.
C1_GenerationFailureChangesNothing ==
    [][(pc = "synthesizing" /\ pc' = "idle") =>
          /\ outcome' = "generation_failed"
          /\ \A i \in 1..Len(cycleStart.dreamed) :
                /\ deep'[i].dreamed = cycleStart.dreamed[i]
                /\ deep'[i].dream_date = cycleStart.dream_date[i]
          /\ InsightsAfter(inserted', cycleStart.inserted) = {}
          /\ dreamsDir' = cycleStart.dreamsDir
          /\ stateFile' = cycleStart.stateFile
          /\ \A k \in ReaderKeys' :
                IdSet(memories) \subseteq IdSet(retrieve_undreamed_memories(deep', k))
      ]_vars

C1_Witness ==
    /\ outcome = "generation_failed"
    /\ Unprocessed(deep) # {}
    /\ \E i \in 1..Len(deep) : deep[i].dreamed = 1

\* C2: promotion precedes marking: whenever a step turns a record's dreamed
\* flag from 0 to 1, the cycle is at its marking step with a parsed dream, and
\* either the dream has no consolidation or its insight has been inserted
\* into working memory since the cycle began.
C2_PromotionPrecedesMarking ==
    [][\A i \in 1..Len(deep) :
          (deep[i].dreamed = 0 /\ deep'[i].dreamed = 1) =>
             /\ pc = "marking"
             /\ deep[i].id \in IdSet(memories)
             /\ \/ dream.consolidation = <<>>
                \/ \E k \in InsightsAfter(inserted, cycleStart.inserted) :
                      inserted[k].summary = DreamInsightPrefix \o dream.consolidation
      ]_vars

C2_Witness ==
    /\ pc = "updating"
    /\ dream.consolidation # <<>>
    /\ \E i \in 1..Len(deep) : deep[i].dreamed = 1

\* C3: the marking step marks exactly the ids collected at the start of the
\* cycle: a record is dreamed after it iff it was dreamed before or its id was
\* collected; a record appended since collection stays undreamed and is
\* returned by the next retrieve_undreamed_memories.
C3_MarksExactlyTheCollectedIds ==
    [][(pc = "marking" /\ pc' = "updating") =>
          /\ Len(deep') = Len(deep)
          /\ \A i \in 1..Len(deep) :
                deep'[i].dreamed = 1 <=>
                   (deep[i].dreamed = 1 \/ deep[i].id \in IdSet(memories))
          /\ IdSet(memories) = Unprocessed(
                 [i \in 1..Len(cycleStart.dreamed) |->
                     [dreamed |-> cycleStart.dreamed[i]]])
          /\ \A i \in (Len(cycleStart.dreamed) + 1)..Len(deep) :
                /\ deep'[i].dreamed = 0
                /\ \A k \in ReaderKeys' :
                      deep[i].id \in IdSet(retrieve_undreamed_memories(deep', k))
      ]_vars

C3_Witness ==
    /\ pc = "updating"
    /\ Len(deep) > Len(cycleStart.dreamed)
    /\ deep[Len(deep)].dreamed = 0
    /\ \E i \in 1..Len(cycleStart.dreamed) : deep[i].dreamed = 1

\* C4: the working store never holds more than WORKING_MEMORY_MAX_ENTRIES
\* entries and is exactly the most recent min(n, WORKING_MEMORY_MAX_ENTRIES)
\* of the n entries inserted so far, in insertion order.
C4_WorkingStoreIsBoundedFifo ==
    /\ Len(working) <= WORKING_MEMORY_MAX_ENTRIES
    /\ Len(working) = Min(Len(inserted), WORKING_MEMORY_MAX_ENTRIES)
    /\ \A i \in 1..Len(working) :
          working[i] = inserted[Len(inserted) - Len(working) + i]

C4_Witness ==
    /\ Len(inserted) > WORKING_MEMORY_MAX_ENTRIES + 1
    /\ \E k \in 1..Len(inserted) : inserted[k].category = "dream_consolidation"
    /\ working[Len(working)].category # "dream_consolidation"

\* C5: retrieve_undreamed_memories returns no record whose dreamed flag is
\* set and returns every record whose dreamed flag is clear.
C5_ListsExactlyTheUnprocessed ==
    \A k \in ReaderKeys :
       IdSet(retrieve_undreamed_memories(deep, k)) =
          {deep[i].id : i \in Unprocessed(deep)}

C5_Witness ==
    /\ \E i \in 1..Len(deep) : deep[i].dreamed = 1
    /\ \E i \in 1..Len(deep) : deep[i].dreamed = 0
    /\ outcome = "dreamed"


\* C6: marking is idempotent on the whole store: a record that is already
\* dreamed keeps its dreamed flag and its dream date through every later
\* call of mark_as_dreamed, whatever the call time.
C6_MarkingIsIdempotent ==
    [][\A i \in 1..Len(deep) :
          deep[i].dreamed = 1 =>
             /\ deep'[i].dreamed = 1
             /\ deep'[i].dream_date = deep[i].dream_date
      ]_vars

\* C7: a record that retrieve_undreamed_memories returned as "corrupted" is
\* not marked by the cycle that collected it: its dreamed flag stays clear.
C7_CorruptedRecordsStayUnprocessed ==
    \A j \in 1..Len(memories) :
       memories[j].category = "corrupted" => deep[memories[j].id].dreamed = 0

\* C8: retrieve_undreamed_memories returns exactly one entry per undreamed
\* record; a record that cannot be decrypted appears under its own id as
\* "corrupted" with the placeholder content, and every other undreamed record
\* appears with the category and the content it was stored with.
C8_OneEntryPerUnprocessedRecord ==
    \A k \in ReaderKeys :
       LET ms == retrieve_undreamed_memories(deep, k)
       IN /\ Len(ms) = Cardinality(Unprocessed(deep))
          /\ \A i \in Unprocessed(deep) :
                \E j \in 1..Len(ms) :
                   /\ ms[j].id = deep[i].id
                   /\ IF DecryptOk(k, deep[i].encrypted_blob)
                      THEN /\ ms[j].category = appended[i].category
                           /\ ms[j].content = appended[i].content
                      ELSE /\ ms[j].category = "corrupted"
                           /\ ms[j].content = CorruptedNote

C8_Witness ==
    \E i, j \in Unprocessed(deep) :
       /\ ~deep[i].encrypted_blob.intact
       /\ deep[j].encrypted_blob.intact

StorageFailures ==
    {"archive_write_failed", "promotion_failed", "marking_failed",
     "state_write_failed"}

\* C9: when a storage write fails at any step of a cycle, the cycle leaves no
\* partial change: dreamed flags and dream dates, working-memory insertions
\* by the cycle, the archive and the state file are as the cycle found them.
C9_StorageFailureLeavesNoPartialChange ==
    [][(pc # "idle" /\ pc' = "idle" /\ outcome' \in StorageFailures) =>
          /\ \A i \in 1..Len(cycleStart.dreamed) :
                /\ deep'[i].dreamed = cycleStart.dreamed[i]
                /\ deep'[i].dream_date = cycleStart.dream_date[i]
          /\ InsightsAfter(inserted', cycleStart.inserted) = {}
          /\ dreamsDir' = cycleStart.dreamsDir
          /\ stateFile' = cycleStart.stateFile
      ]_vars

\* C10: a cycle started with no undreamed record ends at once, without a
\* generation call and without a dream: it leaves the deep store, the working
\* store and the archive alone, leaves total_dreams and latest_dream_title
\* alone, and when it returns it has recorded the dreamless night
\* (dream_count 0 and last_dream at the time of the cycle).
C10_DreamlessCycleOnlyRecordsTheMarker ==
    [][(pc = "idle" /\ cycles' = cycles + 1 /\ Unprocessed(deep) = {}) =>
          /\ pc' = "idle"
          /\ dream' = NoDream
          /\ outcome' \in {"dreamless", "state_write_failed"}
          /\ UNCHANGED <<deep, working, inserted, dreamsDir>>
          /\ stateFile'.total_dreams = stateFile.total_dreams
          /\ stateFile'.latest_dream_title = stateFile.latest_dream_title
          /\ outcome' = "dreamless" =>
                /\ stateFile'.dream_count = Some(0)
                /\ stateFile'.last_dream = Some(now)
          /\ outcome' = "state_write_failed" => stateFile' = stateFile
      ]_vars

C10_Witness ==
    /\ outcome = "dreamless"
    /\ stateFile.dream_count = Some(0)
    /\ stateFile.total_dreams = Some(1)
    /\ Len(deep) > 0

\* C11: the waking process appends to the deep store without holding or
\* obtaining the decryption key: get_cipher has handed it no key, and nothing
\* it holds decrypts a stored record, whatever waking operations have run.
C11_WakingRoleNeverObtainsTheKey ==
    /\ obtained.waking = {}
    /\ \A i \in 1..Len(deep) :
          \A k \in obtained.waking : ~DecryptOk(k, deep[i].encrypted_blob)

\* C12: a record is born undreamed; its dreamed flag never goes back from 1
\* to 0; and a step that changes any dreamed flag is the marking step of the
\* dream cycle, which touches neither the working store nor the list of
\* appended records (it is no waking operation).
C12_FlagIsMonotoneAndSetOnlyByMarking ==
    [][/\ Len(deep') >= Len(deep)
       /\ \A i \in (Len(deep) + 1)..Len(deep') : deep'[i].dreamed = 0
       /\ \A i \in 1..Len(deep) :
             /\ deep[i].dreamed = 1 => deep'[i].dreamed = 1
             /\ deep'[i].dreamed # deep[i].dreamed =>
                   /\ pc = "marking"
                   /\ pc' = "updating"
                   /\ UNCHANGED <<working, inserted, appended, remembering>>
      ]_vars

C12_Witness ==
    /\ pc = "updating"
    /\ cycles = 2
    /\ \E i, j \in 1..Len(deep) :
          /\ deep[i].dreamed = 1
          /\ deep[i].id \notin IdSet(memories)
          /\ deep[j].dreamed = 1
          /\ deep[j].id \in IdSet(memories)

\* C13: in every state of the deep store, a record is dreamed iff it has a
\* dream date: the two fields are set together.
C13_DreamDateIsSetTogetherWithDreamed ==
    \A i \in 1..Len(deep) : (deep[i].dreamed = 1) <=> (deep[i].dream_date # NULL)

C13_Witness ==
    /\ \E i \in 1..Len(deep) : deep[i].dreamed = 1 /\ deep[i].dream_date = Some(now)
    /\ \E i \in 1..Len(deep) : deep[i].dreamed = 0 /\ deep[i].dream_date = NULL

\* C14: the deep store is append-only: no step of the program removes a
\* record or changes the id, timestamp, category, ciphertext or content hash
\* of one; only the marking step changes a record at all, and it changes
\* nothing but the dreamed flag and dream date of the ids it was given.
\* (A ciphertext damaged on disk is no step of the program.)
C14_DeepStoreIsAppendOnly ==
    [][tampered' = tampered =>
          /\ Len(deep') >= Len(deep)
          /\ \A i \in 1..Len(deep) :
                /\ deep'[i].id = deep[i].id
                /\ deep'[i].timestamp = deep[i].timestamp
                /\ deep'[i].category = deep[i].category
                /\ deep'[i].encrypted_blob = deep[i].encrypted_blob
                /\ deep'[i].content_hash = deep[i].content_hash
                /\ deep'[i] # deep[i] =>
                      /\ pc = "marking"
                      /\ pc' = "updating"
                      /\ deep[i].id \in IdSet(memories)
      ]_vars

C14_Witness ==
    /\ pc = "updating"
    /\ \E i, j \in 1..Len(deep) :
          /\ deep[i].id \in IdSet(memories)
          /\ deep[i].dream_date = Some(now)
          /\ deep[j].id \notin IdSet(memories)
          /\ deep[j].dream_date = NULL
          /\ deep[j].timestamp < now

RECURSIVE SumOf(_)
\* The sum of the values of a function with a finite domain.
SumOf(f) ==
    IF DOMAIN f = {} THEN 0
    ELSE LET c == CHOOSE d \in DOMAIN f : TRUE
         IN f[c] + SumOf([d \in DOMAIN f \ {c} |-> f[d]])

\* C16: after any appends and mark_as_dreamed calls, deep_memory_stats
\* reports as total the number of records appended, as undreamed the number
\* of records never marked, as dreamed the rest, and per category the number
\* of records appended under it, dreamed or not; the category counts sum to
\* the total.
C16_StatsCountTheStore ==
    LET st == deep_memory_stats(deep)
    IN /\ st.total_memories = Len(appended)
       /\ st.undreamed =
             Cardinality({i \in 1..Len(deep) : deep[i].dream_date = NULL})
       /\ st.dreamed = st.total_memories - st.undreamed
       /\ st.dreamed =
             Cardinality({i \in 1..Len(deep) : deep[i].dream_date # NULL})
       /\ DOMAIN st.categories = {appended[i].category : i \in 1..Len(appended)}
       /\ \A c \in DOMAIN st.categories :
             st.categories[c] =
                Cardinality({i \in 1..Len(appended) : appended[i].category = c})
       /\ SumOf(st.categories) = st.total_memories

C16_Witness ==
    /\ Len(deep) = 2
    /\ deep[1].category # deep[2].category
    /\ deep[1].dreamed = 1
    /\ deep[2].dreamed = 0
    /\ deep_memory_stats(deep).categories[deep[1].category] = 1

\* The entries of a store that a category filter lets through.
Matching(wm, category) ==
    SelectSeq(wm, LAMBDA m : category = NULL \/ m.category = category[1])

\* C17: get_working_memory filters by category first and then limits: for a
\* limit >= 0, 0 included, the result is the last min(limit, m) of the m
\* matching entries, in insertion order, and so never longer than the limit;
\* without a limit it is all the matching entries.
C17_ListIsTheLastLimitOfTheMatches ==
    recalled.call = "get_working_memory" =>
       LET matches == Matching(recalled.of, recalled.category)
           m       == Len(matches)
       IN IF recalled.limit = NULL
          THEN recalled.result = matches
          ELSE /\ recalled.limit[1] >= 0
               /\ Len(recalled.result) <= recalled.limit[1]
               /\ recalled.result =
                     SubSeq(matches, m - Min(recalled.limit[1], m) + 1, m)

\* Where get_working_memory agrees with C17: the same, for a limit >= 1.
C17_ListIsTheLastLimitForPositiveLimits ==
    (recalled.call = "get_working_memory" /\ recalled.limit # Some(0)) =>
       LET matches == Matching(recalled.of, recalled.category)
           m       == Len(matches)
       IN IF recalled.limit = NULL
          THEN recalled.result = matches
          ELSE /\ Len(recalled.result) <= recalled.limit[1]
               /\ recalled.result =
                     SubSeq(matches, m - Min(recalled.limit[1], m) + 1, m)

\* The positions of the "older memories omitted" lines among some lines.
OmittedIn(shown) ==
    {j \in 1..Len(shown) :
        /\ StartsWith(shown[j], OmittedPrefix)
        /\ Len(shown[j]) >= Len(OmittedSuffix)
        /\ LastN(shown[j], Len(OmittedSuffix)) = OmittedSuffix}

\* C18: for a non-empty working store and any budget, the rendered context
\* is, line by line, a suffix of the store in insertion order, one line per
\* entry; an "older memories omitted" line comes first iff some entry is left
\* out, it is the only such line, and the number in it is the number of
\* entries of the store that are not shown.
C18_ContextIsASuffixAndCountsTheRest ==
    (recalled.call = "get_working_memory_context" /\ recalled.of # <<>>) =>
       LET wm      == recalled.of
           shown   == Split(recalled.result, "\n")
           omitted == OmittedIn(shown)
           entries == Len(shown) - Cardinality(omitted)
           left    == Len(wm) - entries
       IN /\ entries <= Len(wm)
          /\ omitted \subseteq {1}
          /\ omitted = {1} <=> left > 0
          /\ omitted = {1} => shown[1] = OmittedLine(left)
          /\ \A j \in 1..entries :
                shown[Len(shown) - entries + j] =
                   ContextLine(wm[Len(wm) - entries + j])

\* A context that shows some entries, of different lengths, and leaves
\* others out.
C18_Witness ==
    /\ recalled.call = "get_working_memory_context"
    /\ LET shown == Split(recalled.result, "\n")
       IN /\ OmittedIn(shown) = {1}
          /\ Len(shown) > 3
          /\ Len(shown) <= Len(recalled.of)
          /\ Len(shown[Len(shown)]) # Len(shown[Len(shown) - 1])

\* C19: remember writes the working store first and the deep store second,
\* under one category: its first step adds the working-memory entry and no
\* deep record; its second step leaves the working store alone and either
\* adds one deep record of that category with the full context, or, when the
\* deep write fails, adds none and leaves the entry in the working store.
C19_RememberWritesWorkingThenDeep ==
    [][/\ (remembering = NULL /\ remembering' # NULL) =>
             /\ deep' = deep
             /\ inserted' = Append(inserted, working'[Len(working')])
             /\ working'[Len(working')].category = remembering'[1].category
       /\ (remembering # NULL /\ remembering' = NULL) =>
             /\ UNCHANGED <<working, inserted>>
             /\ working[Len(working)].category = remembering[1].category
             /\ \/ deep' = deep /\ appended' = appended
                \/ /\ Len(deep') = Len(deep) + 1
                   /\ SubSeq(deep', 1, Len(deep)) = deep
                   /\ deep'[Len(deep')].category = remembering[1].category
                   /\ appended' = Append(appended,
                          [content |-> remembering[1].full_context,
                           category |-> remembering[1].category])
      ]_vars

\* A remember whose deep write failed, after one that succeeded: more entries
\* remembered in working memory than records in deep memory.
C19_Witness ==
    /\ remembering = NULL
    /\ Len(deep) = 1
    /\ Cardinality({k \in 1..Len(working) :
                       working[k].category \in ActionCategories}) = 2
    /\ working[Len(working)].category # deep[1].category

\* C20: a dream cycle that completes has added exactly one working-memory
\* entry, under the category dream_consolidation, iff the parsed consolidation
\* is non-empty: the promotion step appends the insight then and leaves the
\* working store alone otherwise, no other step of the cycle touches the
\* working store, and in both cases the completed cycle has marked every
\* record it collected.
C20_CompletedCyclePromotesIffConsolidation ==
    [][/\ (pc = "promoting" /\ pc' = "marking") =>
             IF dream.consolidation # <<>>
             THEN /\ inserted' = Append(inserted,
                        [timestamp |-> now, category |-> "dream_consolidation",
                         summary |-> DreamInsightPrefix \o dream.consolidation])
                  /\ working'[Len(working')] = inserted'[Len(inserted')]
                  /\ SubSeq(working', 1, Len(working') - 1) =
                        LastN(working, WORKING_MEMORY_MAX_ENTRIES - 1)
             ELSE UNCHANGED <<working, inserted>>
       /\ ((pc' # pc \/ cycles' # cycles) /\ pc # "promoting") =>
             UNCHANGED <<working, inserted>>
       /\ (pc = "updating" /\ outcome' = "dreamed") =>
             /\ Cardinality(InsightsAfter(inserted', cycleStart.inserted)) =
                   IF dream.consolidation # <<>> THEN 1 ELSE 0
             /\ \A j \in 1..Len(memories) : deep'[memories[j].id].dreamed = 1
      ]_vars

\* Two completed cycles, one with an insight and one without: every record
\* is dreamed and working memory has received one dream insight.
C20_Witness ==
    /\ outcome = "dreamed"
    /\ stateFile.total_dreams = Some(2)
    /\ Len(deep) = 2
    /\ \A i \in 1..Len(deep) : deep[i].dreamed = 1
    /\ Cardinality(InsightsAfter(inserted, 0)) = 1
    /\ working[Len(working)].category = "dream_consolidation"

\* C21: total_dreams counts the cycles that completed with a dream: the step
\* that completes a cycle with a dream adds exactly one to it and records the
\* time and the title of the dream; every other step, the end of a dreamless
\* or an aborted cycle included, leaves total_dreams and latest_dream_title
\* as they were.
C21_TotalDreamsCountsCompletedCycles ==
    [][IF pc = "updating" /\ outcome' = "dreamed"
       THEN /\ stateFile'.total_dreams = Some(Get(stateFile.total_dreams, 0) + 1)
            /\ stateFile'.last_dream = Some(now)
            /\ stateFile'.latest_dream_title = Some(dream.title)
       ELSE /\ stateFile'.total_dreams = stateFile.total_dreams
            /\ stateFile'.latest_dream_title = stateFile.latest_dream_title
      ]_vars

\* One cycle completed with a dream, then one was aborted: the total is 1.
C21_Witness ==
    /\ cycles = 2
    /\ outcome \in {"generation_failed", "marking_failed"}
    /\ stateFile.total_dreams = Some(1)
    /\ stateFile.latest_dream_title # NULL

\* C22: the archive is append-only, one file per cycle: the step that saves
\* the dream adds one file to the archive and leaves every file that was
\* there with the content it had.
C22_ArchiveGainsOneFilePerCycle ==
    [][(pc = "persisting" /\ pc' = "promoting") =>
          /\ Cardinality(DOMAIN dreamsDir') = Cardinality(DOMAIN dreamsDir) + 1
          /\ \A n \in DOMAIN dreamsDir :
                n \in DOMAIN dreamsDir' /\ dreamsDir'[n] = dreamsDir[n]
      ]_vars

\* C30: a record is in the batch of at most one completed cycle: a cycle that
\* completes leaves every record it collected dreamed, and a cycle collects
\* only records that are undreamed, so none that a completed cycle collected.
C30_NoRecordIsDreamedTwice ==
    [][/\ (pc = "updating" /\ outcome' = "dreamed") =>
             \A j \in 1..Len(memories) : deep'[memories[j].id].dreamed = 1
       /\ (pc = "idle" /\ pc' = "synthesizing") =>
             /\ memories' # <<>>
             /\ \A j \in 1..Len(memories') :
                   /\ deep[memories'[j].id].dreamed = 0
                   /\ deep[memories'[j].id].dream_date = NULL
       /\ \A i \in 1..Len(deep) : deep[i].dreamed = 1 => deep'[i].dreamed = 1
      ]_vars

\* A second cycle has collected the record appended after the first cycle
\* completed, and only that one.
C30_Witness ==
    /\ pc = "synthesizing"
    /\ stateFile.total_dreams = Some(1)
    /\ Len(deep) = 2
    /\ deep[1].dreamed = 1
    /\ Ids(memories) = <<2>>


\* The total length of the lines of numbers i..Len(shown).
RECURSIVE LengthFrom(_, _)
LengthFrom(shown, i) ==
    IF i > Len(shown) THEN 0 ELSE Len(shown[i]) + LengthFrom(shown, i + 1)

\* C27: the lengths of the entry lines of a rendered context sum to at most
\* the character budget, 4 x max_tokens_approx; the entries shown are the
\* most recent ones, and when an entry is left out, the line of the most
\* recent entry left out would have taken the total over the budget.
C27_ShownLinesFitTheBudget ==
    (recalled.call = "get_working_memory_context" /\ recalled.of # <<>>) =>
       LET wm      == recalled.of
           budget  == 4 * recalled.max_tokens_approx
           shown   == Split(recalled.result, "\n")
           first   == IF OmittedIn(shown) = {} THEN 1 ELSE 2
           entries == Len(shown) - first + 1
           left    == Len(wm) - entries
           total   == LengthFrom(shown, first)
       IN /\ total <= budget
          /\ \A j \in 1..entries :
                shown[first + j - 1] = ContextLine(wm[left + j])
          /\ left > 0 => total + Len(ContextLine(wm[left])) > budget

\* A context that shows several entries without using the budget up, and
\* stops at an entry that does not fit in what is left of it.
C27_Witness ==
    /\ recalled.call = "get_working_memory_context"
    /\ recalled.max_tokens_approx > 0
    /\ LET shown == Split(recalled.result, "\n")
           total == LengthFrom(shown, 2)
       IN /\ OmittedIn(shown) = {1}
          /\ Len(shown) > 2
          /\ 0 < total
          /\ total < 4 * recalled.max_tokens_approx


\* The lines of a parsed response after its title that do not start with the
\* consolidation marker, and those that do.
NarrativeLines(lines) == SelectSeq(Tail(lines), LAMBDA l : ~IsConsolidationLine(l))

MarkerLines(lines) == SelectSeq(Tail(lines), IsConsolidationLine)

\* C24, as stated: the title is the first line of the response, the
\* narrative is exactly the later lines that do not start with the
\* consolidation marker, in order, and the consolidation is what follows the
\* colon of a marker line, empty when there is none.
C24_TitleIsFirstLineNarrativeIsTheRest ==
    recalled.call = "generate_dream" =>
       LET lines  == Split(recalled.response, "\n")
           marker == MarkerLines(lines)
           parsed == recalled.result
       IN /\ parsed.title = lines[1]
          /\ parsed.narrative = Join(NarrativeLines(lines), "\n")
          /\ marker = <<>> => parsed.consolidation = <<>>
          /\ marker # <<>> =>
                \E j \in 1..Len(marker) :
                   parsed.consolidation = Strip(AfterFirst(Strip(marker[j]), ":"))

\* C24, amended: the response is trimmed first; the title is its first line,
\* trimmed, without leading '#' and spaces; the narrative is the later lines
\* that do not start with the consolidation marker, joined by newlines in
\* their order and trimmed as a whole; the consolidation is the trimmed text
\* after the first colon of the last marker line, empty without one.
C24_ParsedFromTheTrimmedResponse ==
    recalled.call = "generate_dream" =>
       LET lines  == Split(Strip(recalled.response), "\n")
           marker == MarkerLines(lines)
           first  == Strip(lines[1])
           parsed == recalled.result
       IN /\ \E k \in 0..Len(first) :
                /\ \A j \in 1..k : first[j] \in {"#", " "}
                /\ k < Len(first) => first[k + 1] \notin {"#", " "}
                /\ parsed.title = SubSeq(first, k + 1, Len(first))
          /\ parsed.narrative = Strip(Join(NarrativeLines(lines), "\n"))
          /\ \A l \in Range(Split(parsed.narrative, "\n")) :
                ~IsConsolidationLine(l)
          /\ parsed.consolidation =
                IF marker = <<>> THEN <<>>
                ELSE Strip(AfterFirst(Strip(marker[Len(marker)]), ":"))

\* A response with a heading mark before its title and two marker lines
\* around a narrative line: the second marker line gives the consolidation.
C24_Witness ==
    /\ recalled.call = "generate_dream"
    /\ LET lines == Split(recalled.response, "\n")
       IN /\ Len(lines) = 4
          /\ lines[1] = <<"#", " ", "T">>
          /\ IsConsolidationLine(lines[2])
          /\ lines[3] = <<" ", "b", " ">>
          /\ IsConsolidationLine(lines[4])
          /\ lines[2] # lines[4]
    /\ recalled.result.title = <<"T">>
    /\ recalled.result.narrative = <<"b">>
    /\ recalled.result.consolidation = <<"j", ":", "k">>


\* C23: get_or_create_dream_key returns the configured key when there is
\* one, else the key in the key file when the file exists, else a newly
\* generated key that it writes to the key file; and through any sequence
\* of calls with no change of the configuration or the key file from
\* outside, every call returns the same key and at most one call generates.
C23_KeyResolutionIsOrderedAndStable ==
    /\ \A i \in 1..Len(keyLog) :
          LET c == keyLog[i]
          IN /\ c.cfg # "" =>
                   c.key = c.cfg /\ c.after = c.before /\ c.generated = 0
             /\ (c.cfg = "" /\ c.before # NULL) =>
                   c.key = c.before[1] /\ c.after = c.before /\ c.generated = 0
             /\ (c.cfg = "" /\ c.before = NULL) =>
                   /\ c.generated = 1
                   /\ c.after = Some(c.key)
                   /\ c.key \notin ConfiguredKeys \cup InstalledKeys
    /\ \A i, j \in 1..Len(keyLog) : keyLog[i].key = keyLog[j].key
    /\ Cardinality({i \in 1..Len(keyLog) : keyLog[i].generated = 1}) <= 1

\* The key file was deleted after a first key had been generated: the next
\* call generates a second, different key, and the calls after it return it.
C23_Witness ==
    /\ generated = 2
    /\ Len(keyLog) = 4
    /\ keyLog[1].generated = 1
    /\ keyLog[1].key # GeneratedKeys[1]
    /\ keyLog[3].before = Some(keyLog[1].key)


StoresBefore(n) ==
    IF n = 1 THEN executing.start
    ELSE [inserted |-> executing.log[n - 1].inserted,
          deep     |-> executing.log[n - 1].deep]

\* C26: in execute_actions the actions are taken up one after another in
\* the order of the list, whatever happened to the earlier ones; an action
\* whose feed call failed leaves working and deep memory as they were; only
\* an action whose feed call succeeded adds to either; every action that
\* names a post of the feed (or carries a title and a text) has its feed call
\* made; and the loop returns only after taking up every action.
C26_FailedFeedCallAbortsOnlyItsAction ==
    LET log == executing.log
    IN /\ Len(log) <= Len(executing.actions)
       /\ \A n \in 1..Len(log) :
             /\ log[n].action = executing.actions[n]
             /\ log[n].feed = "failed" =>
                   /\ log[n].inserted = StoresBefore(n).inserted
                   /\ log[n].deep = StoresBefore(n).deep
             /\ (\/ log[n].inserted # StoresBefore(n).inserted
                 \/ log[n].deep # StoresBefore(n).deep) => log[n].feed = "ok"
             /\ CallsFeed(log[n].action) <=> log[n].feed \in {"ok", "failed"}
       /\ executing.pc = "done" => Len(log) = Len(executing.actions)
       /\ executing.pc # "none" =>
             /\ Len(inserted) = StoresBefore(Len(log) + 1).inserted
             /\ Len(deep) = StoresBefore(Len(log) + 1).deep

\* The feed call of the first action failed and nothing was remembered for
\* it; the second action went through and was remembered; the third failed.
C26_Witness ==
    /\ executing.pc = "done"
    /\ Len(executing.log) = 3
    /\ executing.log[1].feed = "failed"
    /\ executing.log[2].feed = "ok"
    /\ executing.log[3].feed = "failed"
    /\ Len(deep) = 1
    /\ Len(inserted) = executing.start.inserted + 1
    /\ working[Len(working)].category = executing.actions[2].action

\* C29: whenever no call of store_working_memory is between its load and
\* its save, every entry a returned call appended is in the working store.
C29_NoAppendIsLostWhenWritersOverlap ==
    loaded = NotLoaded =>
       LET k == Len(inserted) - Preloaded
       IN LastN(working, k) = LastN(inserted, k)


\* C28: when cycles keep being run, no store write fails and the generation
\* collaborator does not fail for ever, every record of the deep store is
\* eventually marked as dreamed, whenever it was appended.
C28_EveryRecordIsEventuallyDreamed ==
    \A i \in 1..MaxDeep :
       (Len(deep) >= i) ~> (Len(deep) >= i /\ deep[i].dreamed = 1)

\* The second record was appended while the cycle that dreamed the first was
\* running, and a second cycle has dreamed it.
C28_Witness ==
    /\ Len(deep) = 2
    /\ deep[1].dreamed = 1
    /\ deep[2].dreamed = 1
    /\ stateFile.total_dreams = Some(2)
    /\ pc = "idle"

====
